---- MODULE Spec2Model ----
(***************************************************************************)
(* Playback-session tracker and watch-progress mutator of the streaming    *)
(* backend (playbackController.ts, userController.ts, the Mongoose models  *)
(* PlaybackSession and User, and the express-validator chains of the       *)
(* routes).                                                                *)
(*                                                                         *)
(* A request body value is a record [t, n]: t is the JSON type as the      *)
(* handler sees it ("undefined", "number", "numstr" for a string holding a *)
(* number, "text" for any other string) and n the number it denotes.       *)
(* An ObjectId is represented by its lower-case hex string, which is what  *)
(* ObjectId.toString() returns; a request carries the id as the client     *)
(* wrote it.                                                               *)
(***************************************************************************)
EXTENDS Integers, Sequences, FiniteSets, TLC

VARIABLES
    sessions,   \* PlaybackSession collection: sessionId -> document
    users,      \* User collection: account id -> [v, order, profiles]; order
                \* is the profiles array as a list of profile ids, profiles
                \* maps a profile id to its [watchHistory, myList]
    inflight,   \* updateProgress requests between findById and save
    reported,   \* history: <<profile, key>> of every updateProgress answered 200,
                \* <<movie, k>> of the k-th getMovieById answered 200,
                \* the tokens that have been signed
    catalog,    \* Movie and Series collections: [movies, series], each the
                \* list of its documents in the order the store returns them
    req         \* the request answered last, with its response status

vars == <<sessions, users, inflight, reported, catalog, req>>

---------------------------------------------------------------------------
(* Bounds *)

MaxErrors == 2       \* playbackErrors records kept per session in the model
MaxHistory == 2      \* watchHistory entries kept per profile in the model
MaxList == 2         \* myList entries kept per profile in the model
MaxVersion == 3      \* document versions reached by my-list writes in the model
MaxCascade == 2      \* profiles of an account in the model of the deletions

Times == {1}         \* values new Date() takes
Accounts == {"u1", "u2"}
SessionIds == {"s1", "s2"}
Slots == {1, 2}      \* concurrently served updateProgress requests

---------------------------------------------------------------------------
(* Request values *)

Undef == [t |-> "undefined", n |-> 0]
Num(k) == [t |-> "number", n |-> k]
NumStr(k) == [t |-> "numstr", n |-> k]
Text == [t |-> "text", n |-> 0]

NoStr == [t |-> "undefined", s |-> ""]
StrVal(x) == [t |-> "string", s |-> x]
NumAsStr == [t |-> "number", s |-> ""]

NoErr == [t |-> "undefined", code |-> "", message |-> ""]
ErrObj(c, m) == [t |-> "object", code |-> c, message |-> m]

\* express-validator isNumeric(): the value is turned into a string and has
\* to be a decimal number, so numbers and numeric strings both pass.
IsNumeric(v) == v.t \in {"number", "numstr"}

\* body(f).optional().isNumeric()
OptNumeric(v) == v.t = "undefined" \/ IsNumeric(v)

\* ObjectId hex strings as clients may write them -> the ObjectId they denote.
\* Hex digits are case-insensitive on input; toString() gives lower case.
HexLower ==
    [raw \in {"c1", "C1", "c2", "e1", "e2", "p1", "p2", "t1",
              "n1", "n2", "n3", "n4", "n5", "n6",
              "m1", "m2", "m3", "m4", "m5", "m6", "m7", "m8", "m9",
              "s1", "s2", "s3"} |->
        CASE raw = "C1" -> "c1"
          [] OTHER -> raw]

IsObjectId(raw) == raw \in DOMAIN HexLower

\* new mongoose.Types.ObjectId(raw), for a raw string that is a valid id
ObjectId(raw) == HexLower[raw]

---------------------------------------------------------------------------
(* Profiles.  Each account owns one profile; the playback model refers to  *)
(* profiles by id only.                                                    *)

OwnerOf(pid) == CHOOSE u \in Accounts : pid \in DOMAIN users[u].profiles

IsProfile(pid) == \E u \in Accounts : pid \in DOMAIN users[u].profiles

---------------------------------------------------------------------------
(* PlaybackSession model and controller *)

\* A PlaybackSession document.  playbackToken, manifestUrl, licenseUrl,
\* deviceId and the createdAt/updatedAt/startedAt timestamps are written but
\* never read by the controller and are left out.
NewSession(sid, body, now) ==
    [ sessionId      |-> sid,
      profileId      |-> ObjectId(body.profileId),
      titleId        |-> ObjectId(body.titleId),
      durationMs     |-> body.durationMs.n,
      currentCdn     |-> "cloudflare",
      currentBitrate |-> 0,
      resumeAt       |-> IF body.resumeAt.t = "undefined" THEN 0 ELSE body.resumeAt.n,
      lastPositionMs |-> IF body.resumeAt.t = "undefined" THEN 0 ELSE body.resumeAt.n,
      isCompleted    |-> FALSE,
      completedAt    |-> 0,
      playbackErrors |-> << >> ]

\* POST /playback/start validation chain
StartValid(body) ==
    /\ body.profileId # ""
    /\ body.titleId # ""
    /\ IsNumeric(body.durationMs)

\* Mutant: the sessionId index is not unique, so a repeated identifier
\* replaces the session that holds it.
CreateFails_NoUniqueIndex(sid, body) ==
    \/ ~IsObjectId(body.profileId)
    \/ ~IsObjectId(body.titleId)
    \/ body.resumeAt.t = "text"
    \/ body.durationMs.n < 0
    \/ (body.resumeAt.t # "undefined" /\ body.resumeAt.n < 0)

\* What makes PlaybackSession.create() reject the document: an ObjectId
\* constructor that throws, a Number cast that fails, a min: 0 validator, or
\* the unique index on sessionId.
CreateFails(sid, body) ==
    \/ ~IsObjectId(body.profileId)
    \/ ~IsObjectId(body.titleId)
    \/ body.resumeAt.t = "text"
    \/ body.durationMs.n < 0
    \/ (body.resumeAt.t # "undefined" /\ body.resumeAt.n < 0)
    \/ sid \in DOMAIN sessions

StartBodies ==
    { [profileId |-> "p1", titleId |-> "t1", durationMs |-> Num(5), resumeAt |-> Undef],
      [profileId |-> "p1", titleId |-> "t1", durationMs |-> Num(5), resumeAt |-> Num(-1)],
      [profileId |-> "p1", titleId |-> "t1", durationMs |-> Text, resumeAt |-> Undef],
      [profileId |-> "bad", titleId |-> "t1", durationMs |-> Num(5), resumeAt |-> Undef] }

\* generateSessionId() is crypto.randomUUID(): any identifier may come out;
\* one that is taken is refused by the unique index.  The handler does not
\* look at the caller, nor at whether profileId names a stored profile.
StartPlayback(caller, body, sid, now) ==
    /\ IF ~StartValid(body)
         THEN /\ req' = [op |-> "start", caller |-> caller, sessionId |-> sid,
                         body |-> body, status |-> 400]
              /\ UNCHANGED sessions
         ELSE IF CreateFails(sid, body)
         THEN /\ req' = [op |-> "start", caller |-> caller, sessionId |-> sid,
                         body |-> body, status |-> 500]
              /\ UNCHANGED sessions
         ELSE /\ sessions' = (sid :> NewSession(sid, body, now)) @@ sessions
              /\ req' = [op |-> "start", caller |-> caller, sessionId |-> sid,
                         body |-> body, status |-> 201]
    /\ UNCHANGED <<users, inflight, reported, catalog>>

NoPatch ==
    [ lastPositionMs |-> Undef, durationMs |-> Undef, resumeAt |-> Undef,
      currentBitrate |-> Undef, currentCdn |-> NoStr, playbackError |-> NoErr ]

Patches ==
    { NoPatch,
      [NoPatch EXCEPT !.lastPositionMs = Num(3)],
      [NoPatch EXCEPT !.lastPositionMs = Num(-1)],
      [NoPatch EXCEPT !.lastPositionMs = NumStr(3)],
      [NoPatch EXCEPT !.durationMs = Num(4), !.currentBitrate = Num(1),
                      !.resumeAt = Num(1), !.currentCdn = StrVal("akamai")],
      [NoPatch EXCEPT !.currentCdn = NumAsStr],
      [NoPatch EXCEPT !.playbackError = ErrObj("E1", "m1")],
      [NoPatch EXCEPT !.playbackError = ErrObj("E1", "")],
      [NoPatch EXCEPT !.lastPositionMs = Num(3), !.playbackError = ErrObj("E1", "m1")] }

\* PATCH /playback/:sessionId validation chain
PatchValid(sid, body) ==
    /\ sid # ""
    /\ OptNumeric(body.lastPositionMs)
    /\ OptNumeric(body.durationMs)
    /\ OptNumeric(body.resumeAt)
    /\ OptNumeric(body.currentBitrate)
    /\ body.currentCdn.t \in {"undefined", "string"}
    /\ body.playbackError.t \in {"undefined", "object"}

\* playbackError?.code && playbackError?.message
HasError(body) ==
    /\ body.playbackError.t = "object"
    /\ body.playbackError.code # ""
    /\ body.playbackError.message # ""

\* Mutant: the update replaces the document, so what the request does not
\* carry falls back to the schema defaults.
ApplyUpdates_Replace(s, body, now) ==
    [ s EXCEPT
        !.lastPositionMs = IF body.lastPositionMs.t = "number"
                             THEN body.lastPositionMs.n ELSE 0,
        !.currentBitrate = IF body.currentBitrate.t = "number"
                             THEN body.currentBitrate.n ELSE 0,
        !.isCompleted    = FALSE,
        !.completedAt    = 0 ]

\* Mutant: the error is $set as the whole list instead of being $push-ed.
ApplyUpdates_SetErrors(s, body, now) ==
    [ s EXCEPT
        !.lastPositionMs = IF body.lastPositionMs.t = "number"
                             THEN body.lastPositionMs.n ELSE @,
        !.playbackErrors = IF HasError(body)
                             THEN << [code |-> body.playbackError.code,
                                      message |-> body.playbackError.message,
                                      timestamp |-> now] >>
                             ELSE @ ]

\* The update document the handler builds, applied to session s as
\* findOneAndUpdate applies it: plain keys are $set, $push appends.
\* No update validators run (runValidators is not set).
ApplyUpdates(s, body, now) ==
    [ s EXCEPT
        !.lastPositionMs = IF body.lastPositionMs.t = "number"
                             THEN body.lastPositionMs.n ELSE @,
        !.durationMs     = IF body.durationMs.t = "number"
                             THEN body.durationMs.n ELSE @,
        !.resumeAt       = IF body.resumeAt.t = "number"
                             THEN body.resumeAt.n ELSE @,
        !.currentCdn     = IF body.currentCdn.t = "string"
                             THEN body.currentCdn.s ELSE @,
        !.currentBitrate = IF body.currentBitrate.t = "number"
                             THEN body.currentBitrate.n ELSE @,
        !.playbackErrors = IF HasError(body)
                             THEN Append(@, [code |-> body.playbackError.code,
                                             message |-> body.playbackError.message,
                                             timestamp |-> now])
                             ELSE @ ]

\* Mutant: findOneAndUpdate with upsert: true.
UpdatedSessions_Upsert(sid, body, now) ==
    IF sid \in DOMAIN sessions
      THEN [sessions EXCEPT ![sid] = ApplyUpdates(@, body, now)]
      ELSE (sid :> ApplyUpdates(
                     [ sessionId |-> sid, profileId |-> "p1", titleId |-> "t1",
                       durationMs |-> 0, currentCdn |-> "cloudflare",
                       currentBitrate |-> 0, resumeAt |-> 0, lastPositionMs |-> 0,
                       isCompleted |-> FALSE, completedAt |-> 0,
                       playbackErrors |-> << >> ], body, now)) @@ sessions

\* PlaybackSession.findOneAndUpdate({ sessionId }, updates, { new: true }):
\* the collection afterwards.  No upsert: an unknown sessionId changes nothing.
UpdatedSessions(sid, body, now) ==
    IF sid \in DOMAIN sessions
      THEN [sessions EXCEPT ![sid] = ApplyUpdates(@, body, now)]
      ELSE sessions

UpdatePlayback(caller, sid, body, now) ==
    /\ HasError(body) /\ sid \in DOMAIN sessions
          => Len(sessions[sid].playbackErrors) < MaxErrors
    /\ IF ~PatchValid(sid, body)
         THEN /\ req' = [op |-> "update", caller |-> caller, sessionId |-> sid,
                         body |-> body, status |-> 400]
              /\ UNCHANGED sessions
         ELSE /\ sessions' = UpdatedSessions(sid, body, now)
              /\ req' = [op |-> "update", caller |-> caller, sessionId |-> sid,
                         body |-> body,
                         status |-> IF sid \in DOMAIN sessions' THEN 200 ELSE 404]
    /\ UNCHANGED <<users, inflight, reported, catalog>>

\* updatePlayback up to the update document: the request is validated and
\* the document is built from the body; nothing has been read or written.
UpdateReceive(slot, caller, sid, body, now) ==
    /\ inflight[slot].pc = "idle"
    /\ IF ~PatchValid(sid, body)
         THEN /\ req' = [op |-> "update", caller |-> caller, sessionId |-> sid,
                         body |-> body, status |-> 400]
              /\ UNCHANGED inflight
         ELSE /\ inflight' = [inflight EXCEPT ![slot] =
                                [pc |-> "updating", caller |-> caller, sid |-> sid,
                                 body |-> body, now |-> now]]
              /\ UNCHANGED req
    /\ UNCHANGED <<sessions, users, reported, catalog>>

\* Mutant: the call writes the whole document back, the fields it does not
\* carry as startPlayback created them.
Applied_WholeDocument(slot) ==
    LET r == inflight[slot]
    IN  IF r.sid \in DOMAIN sessions
          THEN [sessions EXCEPT ![r.sid] =
                  ApplyUpdates([@ EXCEPT !.lastPositionMs = 0, !.currentBitrate = 0,
                                         !.currentCdn = "cloudflare",
                                         !.playbackErrors = << >>],
                               r.body, r.now)]
          ELSE sessions

\* The collection after the call's findOneAndUpdate: one atomic update of
\* the stored document, whatever other calls are in flight
Applied(slot) == UpdatedSessions(inflight[slot].sid, inflight[slot].body, inflight[slot].now)

\* updatePlayback from findOneAndUpdate to the response; the slot keeps
\* the request it has answered.
UpdateApply(slot) ==
    /\ inflight[slot].pc = "updating"
    /\ sessions' = Applied(slot)
    /\ req' = [op |-> "update", caller |-> inflight[slot].caller,
               sessionId |-> inflight[slot].sid, body |-> inflight[slot].body,
               status |-> IF inflight[slot].sid \in DOMAIN sessions' THEN 200 ELSE 404]
    /\ inflight' = [inflight EXCEPT ![slot].pc = "answered"]
    /\ UNCHANGED <<users, reported, catalog>>

\* Mutant: completing also moves the position to the end of the title.
ApplyComplete_SeekEnd(s, now) ==
    [ s EXCEPT !.isCompleted = TRUE, !.completedAt = now,
               !.lastPositionMs = s.durationMs ]

\* The update document of completePlayback applied to session s
ApplyComplete(s, now) ==
    [ s EXCEPT !.isCompleted = TRUE, !.completedAt = now ]

\* PlaybackSession.findOneAndUpdate({ sessionId }, {...}, { new: true })
CompletedSessions(sid, now) ==
    IF sid \in DOMAIN sessions
      THEN [sessions EXCEPT ![sid] = ApplyComplete(@, now)]
      ELSE sessions

\* Mutant: completing a session also records the title as watched in the
\* caller's first profile.
CompletePlayback_MarksWatched(caller, sid, now) ==
    /\ sessions' = CompletedSessions(sid, now)
    /\ req' = [op |-> "complete", caller |-> caller, sessionId |-> sid,
               body |-> NoPatch,
               status |-> IF sid \in DOMAIN sessions' THEN 200 ELSE 404]
    /\ users' = IF sid \in DOMAIN sessions
                  THEN [users EXCEPT ![caller].profiles[users[caller].order[1]].watchHistory =
                          << [contentId |-> sessions[sid].titleId, contentType |-> "Movie",
                              episodeId |-> "", progress |-> 100, duration |-> 100,
                              updatedAt |-> now] >>]
                  ELSE users
    /\ UNCHANGED <<inflight, reported, catalog>>

CompletePlayback(caller, sid, now) ==
    /\ IF sid = ""
         THEN /\ req' = [op |-> "complete", caller |-> caller, sessionId |-> sid,
                         body |-> NoPatch, status |-> 400]
              /\ UNCHANGED sessions
         ELSE /\ sessions' = CompletedSessions(sid, now)
              /\ req' = [op |-> "complete", caller |-> caller, sessionId |-> sid,
                         body |-> NoPatch,
                         status |-> IF sid \in DOMAIN sessions' THEN 200 ELSE 404]
    /\ UNCHANGED <<users, inflight, reported, catalog>>

---------------------------------------------------------------------------
(* Watch-progress mutator: updateProgress of userController.ts *)

ProgressBodies ==
    { [profileId |-> "p1", contentId |-> c, contentType |-> "Series",
       episodeId |-> e, progress |-> Num(g), duration |-> Num(100)] :
        c \in {"c1", "C1", "c2"}, e \in {"", "e1"}, g \in {10, 50} }
    \cup
    { [profileId |-> "p1", contentId |-> "c1", contentType |-> "Series",
       episodeId |-> "", progress |-> Num(-1), duration |-> Num(100)],
      [profileId |-> "p1", contentId |-> "c1", contentType |-> "Clip",
       episodeId |-> "", progress |-> Num(10), duration |-> Num(100)],
      [profileId |-> "p1", contentId |-> "bad", contentType |-> "Series",
       episodeId |-> "", progress |-> Num(10), duration |-> Num(100)] }

\* POST /progress/update validation chain
ProgressValid(body) ==
    /\ body.profileId # ""
    /\ body.contentId # ""
    /\ body.contentType \in {"Movie", "Series"}
    /\ IsNumeric(body.progress)
    /\ IsNumeric(body.duration)

\* getProfileById(user, profileId): the caller's own profile with that id
HasProfile(doc, profileId) ==
    IsObjectId(profileId) /\ ObjectId(profileId) \in DOMAIN doc.profiles

\* (h) => h.contentId.toString() === contentId &&
\*        (!episodeId || h.episodeId?.toString() === episodeId)
\* The stored ids are printed (lower-case hex) and compared with the strings
\* of the request; an entry without episodeId is stored with "".
Matches(h, body) ==
    /\ h.contentId = body.contentId
    /\ (body.episodeId = "" \/ (h.episodeId # "" /\ h.episodeId = body.episodeId))

\* Mutant: the episode is not compared at all.
Matches_ContentOnly(h, body) ==
    h.contentId = body.contentId

\* profile.watchHistory.findIndex(...): the first matching position, 0 for -1
FindIndex(wh, body) ==
    IF \E i \in 1..Len(wh) : Matches(wh[i], body)
      THEN CHOOSE i \in 1..Len(wh) :
             /\ Matches(wh[i], body)
             /\ \A j \in 1..(i - 1) : ~Matches(wh[j], body)
      ELSE 0

\* The entry pushed when no entry matches
NewEntry(body, now) ==
    [ contentId   |-> ObjectId(body.contentId),
      contentType |-> body.contentType,
      episodeId   |-> IF body.episodeId = "" THEN "" ELSE ObjectId(body.episodeId),
      progress    |-> body.progress.n,
      duration    |-> body.duration.n,
      updatedAt   |-> now ]

\* What the handler does to the document it loaded, up to the save: the
\* change it records on the document (a positional $set of one entry's fields
\* or a $push), with the document version the save will be checked against.
Changes(doc, body, now) ==
    LET pid == ObjectId(body.profileId)
        wh  == doc.profiles[pid].watchHistory
        i   == FindIndex(wh, body)
    IN  IF i > 0
          THEN [ kind |-> "set", profileId |-> pid, index |-> i,
                 entry |-> [wh[i] EXCEPT !.progress = body.progress.n,
                                         !.duration = body.duration.n,
                                         !.updatedAt = now],
                 v |-> doc.v ]
          ELSE [ kind |-> "push", profileId |-> pid, index |-> 0,
                 entry |-> NewEntry(body, now),
                 v |-> doc.v ]

\* new mongoose.Types.ObjectId(contentId) throws on the push path
PushThrows(doc, body) ==
    /\ FindIndex(doc.profiles[ObjectId(body.profileId)].watchHistory, body) = 0
    /\ (~IsObjectId(body.contentId)
          \/ (body.episodeId # "" /\ ~IsObjectId(body.episodeId)))

\* user.save() rejects the document: a min: 0 validator of watchHistorySchema
\* fails, or the stored document's version is not the one that was loaded.
\* Mongoose checks the version for both changes, as each is sent with a
\* positional path (profiles.N.watchHistory...).
SaveFails(stored, ch) ==
    \/ ch.entry.progress < 0
    \/ ch.entry.duration < 0
    \/ stored.v # ch.v

\* The stored document after user.save() sent the change: the $set writes the
\* three fields of the entry at its position, the $push appends and
\* increments the version.
Saved(stored, ch) ==
    IF ch.kind = "set"
      THEN [stored EXCEPT
              !.profiles[ch.profileId].watchHistory[ch.index] =
                  [@ EXCEPT !.progress = ch.entry.progress,
                            !.duration = ch.entry.duration,
                            !.updatedAt = ch.entry.updatedAt]]
      ELSE [stored EXCEPT
              !.profiles[ch.profileId].watchHistory = Append(@, ch.entry),
              !.v = @ + 1]

\* The key the request names: the content and, when given, the episode
KeyOf(body) ==
    << ObjectId(body.contentId),
       IF body.episodeId = "" THEN "" ELSE ObjectId(body.episodeId) >>

Answer(caller, body, status) ==
    [op |-> "progress", caller |-> caller, sessionId |-> "", body |-> body,
     status |-> status]

\* The handler up to its await of user.save(): 0 when it goes on to save,
\* else the status it answers with.  The caller passed authenticate, and no
\* account is deleted in this model, so User.findById finds the document.
EarlyStatus(caller, body) ==
    IF ~ProgressValid(body) THEN 400
    ELSE IF ~HasProfile(users[caller], body.profileId) THEN 404
    ELSE IF PushThrows(users[caller], body) THEN 500
    ELSE 0

\* Bound of the model: a profile's list holds at most MaxHistory entries.
Room(doc, ch) ==
    ch.kind = "push" =>
        Len(doc.profiles[ch.profileId].watchHistory) < MaxHistory

\* Mutant: the document is looked up by the profile it holds
\* (User.findOne({ 'profiles._id': profileId })) and not by the caller.
UpdateProgress_ByProfile(caller, body, now) ==
    LET owner == IF IsObjectId(body.profileId) /\ IsProfile(ObjectId(body.profileId))
                   THEN OwnerOf(ObjectId(body.profileId)) ELSE caller
    IN  /\ IF EarlyStatus(owner, body) # 0
              THEN /\ req' = Answer(caller, body, EarlyStatus(owner, body))
                   /\ UNCHANGED <<users, reported>>
              ELSE LET ch == Changes(users[owner], body, now)
                   IN  /\ Room(users[owner], ch)
                       /\ users' = [users EXCEPT ![owner] = Saved(@, ch)]
                       /\ reported' = reported \cup {<<ch.profileId, KeyOf(body)>>}
                       /\ req' = Answer(caller, body, 200)
        /\ UNCHANGED <<sessions, inflight, catalog>>

\* updateProgress served without another request in between
UpdateProgress(caller, body, now) ==
    /\ IF EarlyStatus(caller, body) # 0
         THEN /\ req' = Answer(caller, body, EarlyStatus(caller, body))
              /\ UNCHANGED <<users, reported>>
         ELSE LET ch == Changes(users[caller], body, now)
              IN  /\ Room(users[caller], ch)
                  /\ IF SaveFails(users[caller], ch)
                       THEN /\ req' = Answer(caller, body, 500)
                            /\ UNCHANGED <<users, reported>>
                       ELSE /\ users' = [users EXCEPT ![caller] = Saved(@, ch)]
                            /\ reported' = reported \cup {<<ch.profileId, KeyOf(body)>>}
                            /\ req' = Answer(caller, body, 200)
    /\ UNCHANGED <<sessions, inflight, catalog>>

\* updateProgress from the request to the await of user.save(): the user
\* document is read and changed in memory.
ProgressLoad(slot, caller, body, now) ==
    /\ inflight[slot].pc = "idle"
    /\ IF EarlyStatus(caller, body) # 0
         THEN /\ req' = Answer(caller, body, EarlyStatus(caller, body))
              /\ UNCHANGED inflight
         ELSE /\ Room(users[caller], Changes(users[caller], body, now))
              /\ inflight' = [inflight EXCEPT ![slot] =
                                [pc |-> "loaded", caller |-> caller, body |-> body,
                                 ch |-> Changes(users[caller], body, now)]]
              /\ UNCHANGED req
    /\ UNCHANGED <<sessions, users, reported, catalog>>

\* updateProgress from user.save() to the response
ProgressSave(slot) ==
    /\ inflight[slot].pc = "loaded"
    /\ LET r == inflight[slot]
       IN  IF SaveFails(users[r.caller], r.ch)
             THEN /\ req' = Answer(r.caller, r.body, 500)
                  /\ UNCHANGED <<users, reported>>
             ELSE /\ users' = [users EXCEPT ![r.caller] = Saved(@, r.ch)]
                  /\ reported' = reported \cup {<<r.ch.profileId, KeyOf(r.body)>>}
                  /\ req' = Answer(r.caller, r.body, 200)
    /\ inflight' = [inflight EXCEPT ![slot] = [pc |-> "idle"]]
    /\ UNCHANGED <<sessions, catalog>>

---------------------------------------------------------------------------
(* My List: addToMyList and removeFromMyList of userController.ts *)

\* A profile as register and createProfile store it
NewProfile == [watchHistory |-> << >>, myList |-> << >>]

ListBodies ==
    { [profileId |-> p, contentId |-> c] :
        p \in {"p1", "p2", "t1"}, c \in {"c1", "C1", "c2"} }
    \cup
    { [profileId |-> "p1", contentId |-> "bad"],
      [profileId |-> "p1", contentId |-> ""] }

\* POST /my-list/add and /my-list/remove validation chain
ListValid(body) ==
    /\ body.profileId # ""
    /\ body.contentId # ""

\* profile.myList.some((id) => id.toString() === contentId): the stored ids
\* are printed and compared with the string of the request.
InList(list, contentId) ==
    \E i \in 1..Len(list) : list[i] = contentId

\* The list holds the ObjectId id
Holds(list, id) == \E i \in 1..Len(list) : list[i] = id

\* profile.myList.filter((id) => id.toString() !== contentId)
Filtered(list, contentId) ==
    SelectSeq(list, LAMBDA id : id # contentId)

ListAnswer(op, caller, body, status, message) ==
    [op |-> op, caller |-> caller, sessionId |-> "", body |-> body,
     status |-> status, message |-> message]

\* user.save() after a change of one profile's myList: the list is written
\* and the document version incremented.
SavedList(doc, pid, list) ==
    [doc EXCEPT !.profiles[pid].myList = list, !.v = @ + 1]

AddToMyList(caller, body) ==
    /\ IF ~ListValid(body)
         THEN /\ req' = ListAnswer("add", caller, body, 400, "Validation failed")
              /\ UNCHANGED users
         ELSE IF ~HasProfile(users[caller], body.profileId)
         THEN /\ req' = ListAnswer("add", caller, body, 404, "Profile not found")
              /\ UNCHANGED users
         ELSE IF ~IsObjectId(body.contentId)
         THEN /\ req' = ListAnswer("add", caller, body, 500, "Error adding to list")
              /\ UNCHANGED users
         ELSE LET pid  == ObjectId(body.profileId)
                  list == users[caller].profiles[pid].myList
              IN  IF InList(list, body.contentId)
                    THEN /\ req' = ListAnswer("add", caller, body, 400, "Already in list")
                         /\ UNCHANGED users
                    ELSE /\ Len(list) < MaxList
                         /\ users[caller].v < MaxVersion
                         /\ users' = [users EXCEPT ![caller] =
                                SavedList(@, pid, Append(list, ObjectId(body.contentId)))]
                         /\ req' = ListAnswer("add", caller, body, 200, "Added to My List")
    /\ UNCHANGED <<sessions, inflight, reported, catalog>>

\* The filtered list is assigned to the profile; Mongoose writes it when it
\* differs from the list that was loaded.
RemoveFromMyList(caller, body) ==
    /\ IF ~ListValid(body)
         THEN /\ req' = ListAnswer("remove", caller, body, 400, "Validation failed")
              /\ UNCHANGED users
         ELSE IF ~HasProfile(users[caller], body.profileId)
         THEN /\ req' = ListAnswer("remove", caller, body, 404, "Profile not found")
              /\ UNCHANGED users
         ELSE LET pid  == ObjectId(body.profileId)
                  list == users[caller].profiles[pid].myList
              IN  /\ IF Filtered(list, body.contentId) = list
                        THEN UNCHANGED users
                        ELSE /\ users[caller].v < MaxVersion
                             /\ users' = [users EXCEPT ![caller] =
                                    SavedList(@, pid, Filtered(list, body.contentId))]
                  /\ req' = ListAnswer("remove", caller, body, 200, "Removed from My List")
    /\ UNCHANGED <<sessions, inflight, reported, catalog>>

---------------------------------------------------------------------------
(* Profiles: createProfile of userController.ts *)

MaxProfiles == 5

\* The _id values Mongoose generates for pushed profiles
NewProfileIds == {"n1", "n2", "n3", "n4", "n5", "n6"}

\* Ids of the profiles that are stored or about to be stored
UsedProfileIds ==
    UNION { DOMAIN users[u].profiles : u \in Accounts }
    \cup { inflight[r].pid : r \in { x \in Slots : inflight[x].pc = "creating" } }

ProfileBodies == { [name |-> "Kid"], [name |-> ""] }

\* POST /profiles validation chain: body('name').trim().notEmpty()
ProfileValid(body) == body.name # ""

ProfileAnswer(caller, body, status, message) ==
    [op |-> "createProfile", caller |-> caller, sessionId |-> "", body |-> body,
     status |-> status, message |-> message]

\* createProfile from the request to the await of user.save(): the document
\* is loaded, the count is checked on it and the profile is pushed on it.
CreateLoad(slot, caller, body, pid) ==
    /\ inflight[slot].pc = "idle"
    /\ pid \notin UsedProfileIds
    /\ IF ~ProfileValid(body)
         THEN /\ req' = ProfileAnswer(caller, body, 400, "Validation failed")
              /\ UNCHANGED inflight
         ELSE IF Len(users[caller].order) >= MaxProfiles
         THEN /\ req' = ProfileAnswer(caller, body, 400, "Maximum 5 profiles allowed")
              /\ UNCHANGED inflight
         ELSE /\ inflight' = [inflight EXCEPT ![slot] =
                                [pc |-> "creating", caller |-> caller, body |-> body,
                                 pid |-> pid,
                                 order |-> Append(users[caller].order, pid)]]
              /\ UNCHANGED req
    /\ UNCHANGED <<sessions, users, reported, catalog>>

\* The profiles validator of userSchema, run by save() on the document the
\* handler holds
ProfilesInvalid(order) == Len(order) > MaxProfiles

\* The stored document after the save: the push of a profile is sent as
\* $push on the path profiles, which Mongoose applies to the stored array
\* and accompanies with an increment of the version, without comparing the
\* version with the one that was loaded.
SavedProfile(stored, pid) ==
    [stored EXCEPT !.order = Append(@, pid),
                   !.profiles = (pid :> NewProfile) @@ @,
                   !.v = @ + 1]

\* createProfile from user.save() to the response
CreateSave(slot) ==
    /\ inflight[slot].pc = "creating"
    /\ LET r == inflight[slot]
       IN  IF ProfilesInvalid(r.order)
             THEN /\ req' = ProfileAnswer(r.caller, r.body, 500, "Error creating profile")
                  /\ UNCHANGED users
             ELSE /\ users' = [users EXCEPT ![r.caller] = SavedProfile(@, r.pid)]
                  /\ req' = ProfileAnswer(r.caller, r.body, 201, "Profile created")
    /\ inflight' = [inflight EXCEPT ![slot] = [pc |-> "idle"]]
    /\ UNCHANGED <<sessions, reported, catalog>>

---------------------------------------------------------------------------
(* Catalogue: the Movie and Series collections, and deleteMovie and        *)
(* deleteSeries of adminController.ts                                      *)

\* A Movie or Series document, as far as the controllers read it.  views
\* stands for the views of a movie and the totalViews of a series.
Content(id, isPublished, genres, views) ==
    [id |-> id, isPublished |-> isPublished, genres |-> genres, views |-> views]

\* Model.findById(id) finds a document
Exists(coll, id) == \E i \in 1..Len(coll) : coll[i].id = id

\* Model.findByIdAndDelete(id): the collection afterwards
Deleted(coll, id) == SelectSeq(coll, LAMBDA c : c.id # id)

\* The position of the first profile that matches, 0 when none does, given
\* for each position of the profiles array whether its profile matches:
\* the element the positional operator $ stands for.
FirstProfile(matches) ==
    IF \E i \in 1..Len(matches) : matches[i]
      THEN CHOOSE i \in 1..Len(matches) :
             /\ matches[i]
             /\ \A j \in 1..(i - 1) : ~matches[j]
      ELSE 0

\* User.updateMany({ 'profiles.myList': id },
\*                 { $pull: { 'profiles.$.myList': id } }) on one account:
\* the account matches when a profile has id in its list, and the pull is
\* applied to the first such profile.
PullMyList(doc, id) ==
    LET i == FirstProfile([k \in 1..Len(doc.order) |->
                              Holds(doc.profiles[doc.order[k]].myList, id)])
    IN  IF i = 0 THEN doc
        ELSE [doc EXCEPT !.profiles[doc.order[i]].myList =
                            SelectSeq(@, LAMBDA x : x # id)]

\* User.updateMany({ 'profiles.watchHistory.contentId': id },
\*   { $pull: { 'profiles.$.watchHistory': { contentId: id } } })
PullHistory(doc, id) ==
    LET i == FirstProfile([k \in 1..Len(doc.order) |->
                \E e \in 1..Len(doc.profiles[doc.order[k]].watchHistory) :
                    doc.profiles[doc.order[k]].watchHistory[e].contentId = id])
    IN  IF i = 0 THEN doc
        ELSE [doc EXCEPT !.profiles[doc.order[i]].watchHistory =
                            SelectSeq(@, LAMBDA h : h.contentId # id)]

AdminAnswer(op, id, status) ==
    [op |-> op, caller |-> "admin", sessionId |-> "", body |-> [id |-> id],
     status |-> status]

\* deleteMovie for kind = "movies", deleteSeries for kind = "series": the
\* two handlers differ in the collection and in the media they remove from
\* the media services, whose failures are caught and logged.  An id that is
\* not an ObjectId makes findById throw.
DeleteContent(kind, id) ==
    /\ IF ~IsObjectId(id)
         THEN /\ req' = AdminAnswer(kind, id, 500)
              /\ UNCHANGED <<users, catalog>>
         ELSE IF ~Exists(catalog[kind], ObjectId(id))
         THEN /\ req' = AdminAnswer(kind, id, 404)
              /\ UNCHANGED <<users, catalog>>
         ELSE /\ catalog' = [catalog EXCEPT ![kind] = Deleted(@, ObjectId(id))]
              /\ users' = [u \in Accounts |->
                              PullHistory(PullMyList(users[u], ObjectId(id)),
                                          ObjectId(id))]
              /\ req' = AdminAnswer(kind, id, 200)
    /\ UNCHANGED <<sessions, inflight, reported>>

DeleteMovie(id) == DeleteContent("movies", id)

DeleteSeries(id) == DeleteContent("series", id)

---------------------------------------------------------------------------
(* Home feed: the continueWatching row of getHomeFeed, contentController.ts *)

FeedLimit == 10

\* e placed into a list that is in descending updatedAt order, behind the
\* entries that are as recent as e
RECURSIVE InsertByRecency(_, _)
InsertByRecency(e, sorted) ==
    IF sorted = << >> THEN << e >>
    ELSE IF Head(sorted).updatedAt >= e.updatedAt
      THEN << Head(sorted) >> \o InsertByRecency(e, Tail(sorted))
      ELSE << e >> \o sorted

\* Mutant: the comparison is a.updatedAt - b.updatedAt, oldest first.
RECURSIVE SortByRecency_Ascending(_)
SortByRecency_Ascending(wh) ==
    IF wh = << >> THEN << >>
    ELSE LET rest == SortByRecency_Ascending(SubSeq(wh, 1, Len(wh) - 1))
             e    == wh[Len(wh)]
             older == SelectSeq(rest, LAMBDA h : h.updatedAt <= e.updatedAt)
             newer == SelectSeq(rest, LAMBDA h : h.updatedAt > e.updatedAt)
         IN  older \o << e >> \o newer

\* watchHistory.sort((a, b) => b.updatedAt.getTime() - a.updatedAt.getTime()):
\* most recent first; the sort is stable, entries of one time keep their
\* order in the list.
RECURSIVE SortByRecency(_)
SortByRecency(wh) ==
    IF wh = << >> THEN << >>
    ELSE InsertByRecency(wh[Len(wh)], SortByRecency(SubSeq(wh, 1, Len(wh) - 1)))

\* .slice(0, limit)
Slice(list, limit) ==
    SubSeq(list, 1, IF Len(list) < limit THEN Len(list) ELSE limit)

\* Mutant: the entry is pushed whether or not its content was found.
Found_Always(h) == TRUE

\* Movie.findById(history.contentId) or Series.findById(history.contentId),
\* by the entry's contentType, finds a document
Found(h) ==
    IF h.contentType = "Movie"
      THEN Exists(catalog.movies, h.contentId)
      ELSE Exists(catalog.series, h.contentId)

\* What is pushed for an entry: the document with the entry's progress and
\* duration, and for a series the entry's episodeId.  The document is
\* represented by its id.
FeedItem(h) ==
    [ id |-> h.contentId, progress |-> h.progress, duration |-> h.duration,
      episodeId |-> IF h.contentType = "Movie" THEN "" ELSE h.episodeId ]

RECURSIVE FeedItems(_)
FeedItems(entries) ==
    IF entries = << >> THEN << >>
    ELSE (IF Found(Head(entries)) THEN << FeedItem(Head(entries)) >> ELSE << >>)
           \o FeedItems(Tail(entries))

\* The continueWatching row for the account: built from its first profile
ContinueWatching(doc) ==
    IF Len(doc.order) = 0 THEN << >>
    ELSE FeedItems(Slice(SortByRecency(doc.profiles[doc.order[1]].watchHistory),
                         FeedLimit))

\* getHomeFeed.  The sort reorders the loaded copy of the history, which is
\* not saved.  The rows trending, newReleases, trendingSeries, actionMovies
\* and comedyMovies and the flag isPremium are in the response as well.
GetHomeFeed(caller) ==
    /\ req' = [op |-> "feed", caller |-> caller, sessionId |-> "", body |-> NoPatch,
               status |-> 200, data |-> ContinueWatching(users[caller])]
    /\ UNCHANGED <<sessions, users, inflight, reported, catalog>>

---------------------------------------------------------------------------
(* Related content: getRelatedContent of contentController.ts.  A find     *)
(* without sort returns the documents that match in the order of the       *)
(* collection.                                                             *)

RelatedLimit == 10
RelatedCap == 5

\* recommendations.map(r => r._id.toString())
Ids(list) == { list[i].id : i \in 1..Len(list) }

HasGenre(c, genre) == \E g \in 1..Len(c.genres) : c.genres[g] = genre

\* Mutant: the my-list queries have no limit.
ListTier_NoCap(coll, myList, id) ==
    SelectSeq(coll, LAMBDA c : c.isPublished /\ Holds(myList, c.id) /\ c.id # id)

\* Model.find({ _id: { $in: userMyList, $ne: id }, isPublished: true }).limit(5)
ListTier(coll, myList, id) ==
    Slice(SelectSeq(coll, LAMBDA c :
                c.isPublished /\ Holds(myList, c.id) /\ c.id # id),
          RelatedCap)

\* Model.find({ isPublished: true, genres: genre,
\*              _id: { $ne: id, $nin: recommendedIds } }).limit(n)
GenreTier(coll, genre, id, taken, n) ==
    Slice(SelectSeq(coll, LAMBDA c :
                c.isPublished /\ HasGenre(c, genre) /\ c.id # id /\ c.id \notin taken),
          n)

\* c placed into a list in descending order of views, behind the documents
\* with as many views
RECURSIVE InsertByViews(_, _)
InsertByViews(c, sorted) ==
    IF sorted = << >> THEN << c >>
    ELSE IF Head(sorted).views >= c.views
      THEN << Head(sorted) >> \o InsertByViews(c, Tail(sorted))
      ELSE << c >> \o sorted

\* .sort({ views: -1 })
RECURSIVE SortByViews(_)
SortByViews(coll) ==
    IF coll = << >> THEN << >>
    ELSE InsertByViews(coll[Len(coll)], SortByViews(SubSeq(coll, 1, Len(coll) - 1)))

\* Mutant: the trending query does not exclude what is recommended already.
TrendingTier_NoExclusion(id, taken, n) ==
    Slice(SortByViews(SelectSeq(catalog.movies, LAMBDA c :
                c.isPublished /\ c.id # id)),
          n)

\* Movie.find({ isPublished: true, _id: { $ne: id, $nin: recommendedIds } })
\*      .sort({ views: -1 }).limit(n)
TrendingTier(id, taken, n) ==
    Slice(SortByViews(SelectSeq(catalog.movies, LAMBDA c :
                c.isPublished /\ c.id # id /\ c.id \notin taken)),
          n)

\* The collection the request's type names: Movie for 'Movie', Series for
\* anything else
TypeColl(type) == IF type = "Movie" THEN catalog.movies ELSE catalog.series

\* findById(id) on that collection, for an id it holds
Source(type, id) ==
    LET coll == TypeColl(type)
    IN  coll[CHOOSE i \in 1..Len(coll) : coll[i].id = id]

\* The list the handler answers with
Recommendations(type, id, myList) ==
    LET src    == Source(type, id)
        first  == IF Len(myList) > 0
                    THEN ListTier(catalog.movies, myList, id)
                           \o ListTier(catalog.series, myList, id)
                    ELSE << >>
        second == IF Len(first) < RelatedLimit /\ Len(src.genres) > 0
                    THEN first \o GenreTier(TypeColl(type), src.genres[1], id,
                                            Ids(first), RelatedLimit - Len(first))
                    ELSE first
        third  == IF Len(second) < RelatedLimit
                    THEN second \o TrendingTier(id, Ids(second),
                                                RelatedLimit - Len(second))
                    ELSE second
    IN  Slice(third, RelatedLimit)

\* The watchlist the handler reads: the myList of the account's first
\* profile, empty when the account has no profile
UserMyList(doc) ==
    IF Len(doc.order) = 0 THEN << >> ELSE doc.profiles[doc.order[1]].myList

\* What the handler goes on with after User.findById(userId): the stored
\* document, or nothing to read profiles from when no account has the id
\* of the token (user?.profiles[0], activeProfile?.myList || [])
NoUser == [v |-> 0, order |-> << >>, profiles |-> << >>]

UserOrNone(caller) == IF caller \in DOMAIN users THEN users[caller] ELSE NoUser

RelatedAnswer(caller, type, id, status, data) ==
    [op |-> "related", caller |-> caller, sessionId |-> "",
     body |-> [id |-> id, type |-> type], status |-> status, data |-> data]

\* An id that is not an ObjectId makes findById throw.
GetRelatedContent(caller, type, id) ==
    /\ IF ~IsObjectId(id)
         THEN req' = RelatedAnswer(caller, type, id, 500, << >>)
         ELSE IF ~Exists(TypeColl(type), ObjectId(id))
         THEN req' = RelatedAnswer(caller, type, id, 404, << >>)
         ELSE req' = RelatedAnswer(caller, type, id, 200,
                        Recommendations(type, ObjectId(id),
                                        UserMyList(UserOrNone(caller))))
    /\ UNCHANGED <<sessions, users, inflight, reported, catalog>>

---------------------------------------------------------------------------
(* Collaborative recommendations: getCollaborativeRecommendations of       *)
(* contentController.ts                                                    *)

CollabLimit == 10

\* The profile the request is about, "" when there is none: without a
\* profileId the account's first profile, else the profile whose printed
\* _id is the string of the query.
ActiveProfile(doc, profileId) ==
    IF profileId = ""
      THEN IF Len(doc.order) > 0 THEN doc.order[1] ELSE ""
      ELSE IF \E i \in 1..Len(doc.order) : doc.order[i] = profileId
             THEN profileId ELSE ""

\* profile.watchHistory.map(h => h.contentId.toString())
WatchedIds(wh) == { wh[i].contentId : i \in 1..Len(wh) }

\* The $unwind / $match aggregation: the histories of the profiles, of any
\* account, that have an entry for a content the profile watched
SimilarHistories(watched) ==
    { wh \in UNION { { users[u].profiles[p].watchHistory : p \in DOMAIN users[u].profiles } :
                      u \in DOMAIN users } :
        WatchedIds(wh) \cap watched # {} }

\* similarWatchedIds: what those profiles watched and the profile did not
SimilarWatchedIds(watched) ==
    UNION { WatchedIds(wh) : wh \in SimilarHistories(watched) } \ watched

\* Mutant: the neighbour candidates are fetched without isPublished: true.
PublishedAmong_Any(coll, ids) ==
    Slice(SelectSeq(coll, LAMBDA c : c.id \in ids), CollabLimit)

\* Model.find({ _id: { $in: ids }, isPublished: true }).limit(limit)
PublishedAmong(coll, ids) ==
    Slice(SelectSeq(coll, LAMBDA c : c.isPublished /\ c.id \in ids), CollabLimit)

\* Movie.find({ isPublished: true }).sort({ views: -1 }).limit(limit)
ColdStart ==
    Slice(SortByViews(SelectSeq(catalog.movies, LAMBDA c : c.isPublished)), CollabLimit)

\* Mutant: the padding does not exclude what the profile watched.
Padding_Unfiltered(watched, n) ==
    Slice(SortByViews(SelectSeq(catalog.movies, LAMBDA c : c.isPublished)), n)

\* Movie.find({ isPublished: true, _id: { $nin: watchedIds } })
\*      .sort({ views: -1 }).limit(n)
Padding(watched, n) ==
    Slice(SortByViews(SelectSeq(catalog.movies, LAMBDA c :
                c.isPublished /\ c.id \notin watched)),
          n)

\* The list the handler answers with for a profile that watched something
Collaborative(watched) ==
    LET recs == Slice(PublishedAmong(catalog.movies, SimilarWatchedIds(watched))
                        \o PublishedAmong(catalog.series, SimilarWatchedIds(watched)),
                      CollabLimit)
    IN  IF Len(recs) < CollabLimit
          THEN recs \o Padding(watched, CollabLimit - Len(recs))
          ELSE recs

CollabAnswer(caller, profileId, status, data) ==
    [op |-> "collab", caller |-> caller, sessionId |-> "",
     body |-> [profileId |-> profileId], status |-> status, data |-> data]

GetCollaborativeRecommendations(caller, profileId) ==
    /\ IF caller \notin DOMAIN users
         THEN req' = CollabAnswer(caller, profileId, 404, << >>)
         ELSE IF ActiveProfile(users[caller], profileId) = ""
         THEN req' = CollabAnswer(caller, profileId, 404, << >>)
         ELSE LET wh == users[caller].profiles[ActiveProfile(users[caller], profileId)]
                           .watchHistory
              IN  IF wh = << >>
                    THEN req' = CollabAnswer(caller, profileId, 200, ColdStart)
                    ELSE req' = CollabAnswer(caller, profileId, 200,
                                             Collaborative(WatchedIds(wh)))
    /\ UNCHANGED <<sessions, users, inflight, reported, catalog>>

---------------------------------------------------------------------------
(* Initial state: both accounts registered, one profile each, nothing      *)
(* watched, no session.                                                    *)

NoReq == [op |-> "none", caller |-> "", sessionId |-> "", body |-> NoPatch, status |-> 0]

Init ==
    /\ sessions = << >>
    /\ users = [u \in Accounts |->
                  [v |-> 0,
                   order |-> IF u = "u1" THEN <<"p1">> ELSE <<"p2">>,
                   profiles |-> IF u = "u1"
                                  THEN ("p1" :> NewProfile)
                                  ELSE ("p2" :> NewProfile)]]
    /\ inflight = [r \in Slots |-> [pc |-> "idle"]]
    /\ reported = {}
    /\ catalog = [movies |-> << Content("c1", TRUE, <<"Action">>, 1) >>,
                  series |-> << Content("c2", TRUE, <<"Drama">>, 1) >>]
    /\ req = NoReq

DoStart ==
    \E caller \in Accounts, body \in StartBodies, sid \in SessionIds, now \in Times :
        StartPlayback(caller, body, sid, now)

DoUpdate ==
    \E caller \in Accounts, sid \in SessionIds, body \in Patches, now \in Times :
        UpdatePlayback(caller, sid, body, now)

DoComplete ==
    \E caller \in Accounts, sid \in SessionIds, now \in Times :
        CompletePlayback(caller, sid, now)

NextPlayback == DoStart \/ DoUpdate \/ DoComplete

SpecPlayback == Init /\ [][NextPlayback]_vars

\* Requests to POST /playback/start beyond StartBodies: a resume position,
\* a numeric-string resume position, a malformed titleId, no durationMs.
StartCases ==
    StartBodies \cup
    { [profileId |-> "p1", titleId |-> "t1", durationMs |-> Num(5), resumeAt |-> Num(2)],
      [profileId |-> "p1", titleId |-> "t1", durationMs |-> NumStr(5), resumeAt |-> NumStr(2)],
      [profileId |-> "p1", titleId |-> "bad", durationMs |-> Num(5), resumeAt |-> Undef],
      [profileId |-> "p1", titleId |-> "t1", durationMs |-> Undef, resumeAt |-> Undef] }

DoStartCase ==
    \E caller \in Accounts, body \in StartCases, sid \in SessionIds, now \in Times :
        StartPlayback(caller, body, sid, now)

NextStart == DoStartCase \/ DoComplete

SpecStart == Init /\ [][NextStart]_vars

DoProgress ==
    \E caller \in Accounts, body \in ProgressBodies, now \in Times :
        UpdateProgress(caller, body, now)

NextProgress == DoProgress

SpecProgress == Init /\ [][NextProgress]_vars

\* updateProgress requests served next to the my-list requests: the
\* caller's own profile, the other account's, and an id no profile has.
ListProgressBodies ==
    { [profileId |-> p, contentId |-> "c1", contentType |-> "Movie",
       episodeId |-> "", progress |-> Num(10), duration |-> Num(100)] :
        p \in {"p1", "p2", "t1"} }

DoListProgress ==
    \E caller \in Accounts, body \in ListProgressBodies, now \in Times :
        UpdateProgress(caller, body, now)

DoAdd == \E caller \in Accounts, body \in ListBodies : AddToMyList(caller, body)

DoRemove == \E caller \in Accounts, body \in ListBodies : RemoveFromMyList(caller, body)

NextLists == DoListProgress \/ DoAdd \/ DoRemove

SpecLists == Init /\ [][NextLists]_vars

\* Which fresh id is generated does not matter: the model takes one.
DoCreateLoad ==
    /\ NewProfileIds \ UsedProfileIds # {}
    /\ \E slot \in Slots, caller \in Accounts, body \in ProfileBodies :
          CreateLoad(slot, caller, body,
                     CHOOSE pid \in NewProfileIds : pid \notin UsedProfileIds)

DoCreateSave == \E slot \in Slots : CreateSave(slot)

NextProfiles == DoCreateLoad \/ DoCreateSave

SpecProfiles == Init /\ [][NextProfiles]_vars

\* Requests served around a deletion: u1 adds profiles, both accounts put
\* the movie c1 or the series c2 on lists, u1 reports progress on them.
CascadeListBodies ==
    { [profileId |-> p, contentId |-> "c1"] : p \in {"p1", "n1", "p2"} }
    \cup { [profileId |-> "n1", contentId |-> "c2"] }

CascadeProgressBodies ==
    { [profileId |-> p, contentId |-> "c1", contentType |-> "Movie",
       episodeId |-> "", progress |-> Num(10), duration |-> Num(100)] :
        p \in {"p1", "n1"} }

DoCascadeCreate ==
    /\ Len(users["u1"].order) < MaxCascade
    /\ NewProfileIds \ UsedProfileIds # {}
    /\ CreateLoad(1, "u1", [name |-> "Kid"],
                  CHOOSE pid \in NewProfileIds : pid \notin UsedProfileIds)

DoCascadeAdd ==
    \E caller \in Accounts, body \in CascadeListBodies : AddToMyList(caller, body)

DoCascadeProgress ==
    \E body \in CascadeProgressBodies, now \in Times : UpdateProgress("u1", body, now)

DoDeleteMovie == \E id \in {"c1", "C1", "c2", "bad"} : DeleteMovie(id)

DoDeleteSeries == \E id \in {"c2", "c1"} : DeleteSeries(id)

NextCascade ==
    \/ DoCascadeCreate
    \/ DoCreateSave
    \/ DoCascadeAdd
    \/ DoCascadeProgress
    \/ DoDeleteMovie
    \/ DoDeleteSeries

SpecCascade == Init /\ [][NextCascade]_vars

\* Watch-history entries the home feed is taken from: twelve contents in
\* the order of the list, with times that are not in that order and repeat.
FeedPool ==
    << [id |-> "m1", at |-> 3], [id |-> "m2", at |-> 7], [id |-> "s1", at |-> 5],
       [id |-> "m3", at |-> 1], [id |-> "m4", at |-> 7], [id |-> "m5", at |-> 2],
       [id |-> "s2", at |-> 6], [id |-> "m6", at |-> 9], [id |-> "m7", at |-> 4],
       [id |-> "m8", at |-> 4], [id |-> "s3", at |-> 10], [id |-> "m9", at |-> 8] >>

IsSeries(id) == id \in {"s1", "s2", "s3"}

PoolEntry(i) ==
    [ contentId   |-> FeedPool[i].id,
      contentType |-> IF IsSeries(FeedPool[i].id) THEN "Series" ELSE "Movie",
      episodeId   |-> IF IsSeries(FeedPool[i].id) THEN "e1" ELSE "",
      progress    |-> 10 + i,
      duration    |-> 100,
      updatedAt   |-> FeedPool[i].at ]

RECURSIVE PoolEntries(_, _)
PoolEntries(S, i) ==
    IF i > Len(FeedPool) THEN << >>
    ELSE (IF i \in S THEN << PoolEntry(i) >> ELSE << >>) \o PoolEntries(S, i + 1)

\* The histories p1 starts with: every selection of the pool, in list order
FeedHistories == { PoolEntries(S, 1) : S \in SUBSET (1..Len(FeedPool)) }

\* The catalogues the feed is read against: every content of the pool
\* exists; or m6, m2 and s3 have been deleted; or only m1 and s1 are left.
FeedCatalogs ==
    { [movies |-> [i \in 1..Len(M) |-> Content(M[i], TRUE, <<"Action">>, 1)],
       series |-> [i \in 1..Len(S) |-> Content(S[i], TRUE, <<"Drama">>, 1)]] :
        <<M, S>> \in { << <<"m1", "m2", "m3", "m4", "m5", "m6", "m7", "m8", "m9">>,
                          <<"s1", "s2", "s3">> >>,
                       << <<"m1", "m3", "m4", "m5", "m7", "m8", "m9">>,
                          <<"s1", "s2">> >>,
                       << <<"m1">>, <<"s1">> >> } }

InitFeed ==
    /\ sessions = << >>
    /\ \E wh \in FeedHistories :
          users = [u \in Accounts |->
                     [v |-> 0,
                      order |-> IF u = "u1" THEN <<"p1">> ELSE <<"p2">>,
                      profiles |-> IF u = "u1"
                                     THEN ("p1" :> [NewProfile EXCEPT !.watchHistory = wh])
                                     ELSE ("p2" :> NewProfile)]]
    /\ inflight = [r \in Slots |-> [pc |-> "idle"]]
    /\ reported = {}
    /\ catalog \in FeedCatalogs
    /\ req = NoReq

\* updateProgress requests served next to the feed: a content that no
\* collection holds (t1), and a movie of the pool.
FeedProgressBodies ==
    { [profileId |-> "p1", contentId |-> c, contentType |-> "Movie",
       episodeId |-> "", progress |-> Num(50), duration |-> Num(100)] :
        c \in {"t1", "m1"} }

DoFeedProgress ==
    \E body \in FeedProgressBodies, now \in Times : UpdateProgress("u1", body, now)

DoFeed == \E caller \in Accounts : GetHomeFeed(caller)

NextFeed == DoFeedProgress \/ DoFeed

SpecFeed == InitFeed /\ [][NextFeed]_vars

\* The contents a watchlist of the model is taken from, in an order that
\* is not the order of the collections
ListPool == << "s2", "m7", "m1", "m6", "s1", "m2", "m5", "m3", "m4", "s3" >>

RECURSIVE PoolList(_, _)
PoolList(S, i) ==
    IF i > Len(ListPool) THEN << >>
    ELSE (IF i \in S THEN << ListPool[i] >> ELSE << >>) \o PoolList(S, i + 1)

\* The watchlists p1 starts with: every selection of the pool
RelatedLists == { PoolList(S, 1) : S \in SUBSET (1..Len(ListPool)) }

\* The catalogues getRelatedContent is read against: twelve published
\* contents; the same with m2 and s2 unpublished, another order of the
\* collection and a source without genres; and a small catalogue.
RelatedCatalogs ==
    { [ movies |-> << Content("m1", TRUE, <<"Action">>, 5),
                      Content("m2", TRUE, <<"Action">>, 9),
                      Content("m3", TRUE, <<"Drama">>, 1),
                      Content("m4", TRUE, <<"Action">>, 7),
                      Content("m5", TRUE, <<"Drama">>, 3),
                      Content("m6", TRUE, <<"Action">>, 2),
                      Content("m7", TRUE, <<"Drama">>, 8),
                      Content("m8", TRUE, <<"Action">>, 4),
                      Content("m9", TRUE, <<"Action", "Drama">>, 6) >>,
        series |-> << Content("s1", TRUE, <<"Drama">>, 3),
                      Content("s2", TRUE, <<"Action">>, 2),
                      Content("s3", TRUE, <<"Drama">>, 1) >> ],
      [ movies |-> << Content("m8", TRUE, <<"Action">>, 4),
                      Content("m7", TRUE, <<"Drama">>, 8),
                      Content("m2", FALSE, <<"Action">>, 9),
                      Content("m1", TRUE, <<"Action">>, 5),
                      Content("m9", TRUE, << >>, 6),
                      Content("m3", TRUE, <<"Drama", "Action">>, 1),
                      Content("m4", TRUE, <<"Action">>, 7),
                      Content("m6", TRUE, <<"Action">>, 2),
                      Content("m5", TRUE, <<"Drama">>, 3) >>,
        series |-> << Content("s3", TRUE, <<"Drama">>, 1),
                      Content("s2", FALSE, <<"Action">>, 2),
                      Content("s1", TRUE, <<"Drama">>, 3) >> ],
      [ movies |-> << Content("m1", TRUE, <<"Drama">>, 5),
                      Content("m2", TRUE, <<"Action">>, 9),
                      Content("m3", TRUE, <<"Drama">>, 1),
                      Content("m9", TRUE, <<"Action">>, 6) >>,
        series |-> << Content("s1", TRUE, <<"Action">>, 3) >> ] }

InitRelated ==
    /\ sessions = << >>
    /\ \E list \in RelatedLists :
          users = [u \in Accounts |->
                     [v |-> 0,
                      order |-> IF u = "u1" THEN <<"p1">> ELSE <<"p2">>,
                      profiles |-> IF u = "u1"
                                     THEN ("p1" :> [NewProfile EXCEPT !.myList = list])
                                     ELSE ("p2" :> NewProfile)]]
    /\ inflight = [r \in Slots |-> [pc |-> "idle"]]
    /\ reported = {}
    /\ catalog \in RelatedCatalogs
    /\ req = NoReq

\* GET /content/:id/related?type=...
RelatedRequests ==
    { [id |-> "m9", type |-> "Movie"], [id |-> "m1", type |-> "Movie"],
      [id |-> "s1", type |-> "Series"], [id |-> "s1", type |-> ""],
      [id |-> "s1", type |-> "Movie"], [id |-> "bad", type |-> "Movie"] }

DoRelated ==
    \E r \in RelatedRequests : GetRelatedContent("u1", r.type, r.id)

NextRelated == DoRelated

SpecRelated == InitRelated /\ [][NextRelated]_vars

\* The requests that overlap in the model
RaceBodies ==
    { b \in ProgressBodies :
        /\ b.contentId \in {"c1", "C1", "bad"}
        /\ b.contentType = "Series"
        /\ b.progress.n >= 0
        /\ (b.episodeId # "" => (b.contentId = "c1" /\ b.progress.n = 10)) }

DoLoad ==
    \E slot \in Slots, caller \in Accounts, body \in RaceBodies, now \in Times :
        ProgressLoad(slot, caller, body, now)

DoSave == \E slot \in Slots : ProgressSave(slot)

NextRace == DoLoad \/ DoSave

SpecRace == Init /\ [][NextRace]_vars

---------------------------------------------------------------------------
(* Claims about the playback-session tracker (SpecPlayback).  req' is the  *)
(* request a step serves, so an action formula reads the step's inputs     *)
(* from req'.                                                              *)

Untouched(sid) == \A o \in DOMAIN sessions : o # sid => sessions'[o] = sessions[o]

\* C4: once completePlayback has succeeded for a session, isCompleted stays
\* true: no later start, update or complete sets it back to false or drops
\* the session.
C4_CompletedIsTerminal ==
    [][ \A s \in DOMAIN sessions :
            sessions[s].isCompleted
              => s \in DOMAIN sessions' /\ sessions'[s].isCompleted ]_vars

\* An update was applied (200) to a session that had been completed before.
C4_Witness ==
    /\ req.op = "update" /\ req.status = 200
    /\ req.body.lastPositionMs = Num(3)
    /\ sessions[req.sessionId].isCompleted
    /\ sessions[req.sessionId].lastPositionMs = 3

\* C5: a session is changed only by requests of the account that owns the
\* session's profile.
C5_OnlyOwnerModifies ==
    [][ \A s \in DOMAIN sessions :
            sessions'[s] # sessions[s]
              => /\ IsProfile(sessions[s].profileId)
                 /\ OwnerOf(sessions[s].profileId) = req'.caller ]_vars

\* C6: every stored session has lastPositionMs >= 0.
C6_PositionNonNegative ==
    \A s \in DOMAIN sessions : sessions[s].lastPositionMs >= 0

\* C7: a successful updatePlayback gives every supplied field the supplied
\* value and keeps every field that was not supplied, and isCompleted,
\* completedAt, profileId, titleId and sessionId.
C7_PartialUpdate ==
    [][ (req'.op = "update" /\ req'.status = 200) =>
          LET b == req'.body
              old == sessions[req'.sessionId]
              new == sessions'[req'.sessionId]
          IN  /\ new.lastPositionMs =
                    IF b.lastPositionMs.t = "undefined" THEN old.lastPositionMs
                    ELSE b.lastPositionMs.n
              /\ new.durationMs =
                    IF b.durationMs.t = "undefined" THEN old.durationMs
                    ELSE b.durationMs.n
              /\ new.resumeAt =
                    IF b.resumeAt.t = "undefined" THEN old.resumeAt
                    ELSE b.resumeAt.n
              /\ new.currentBitrate =
                    IF b.currentBitrate.t = "undefined" THEN old.currentBitrate
                    ELSE b.currentBitrate.n
              /\ new.currentCdn =
                    IF b.currentCdn.t = "undefined" THEN old.currentCdn
                    ELSE b.currentCdn.s
              /\ (b.playbackError.t = "undefined"
                    => new.playbackErrors = old.playbackErrors)
              /\ new.isCompleted = old.isCompleted
              /\ new.completedAt = old.completedAt
              /\ new.profileId = old.profileId
              /\ new.titleId = old.titleId
              /\ new.sessionId = old.sessionId ]_vars

\* C8: completePlayback sets isCompleted and completedAt and leaves
\* lastPositionMs, durationMs, resumeAt, currentCdn, currentBitrate and
\* playbackErrors as they were.
C8_CompleteFrame ==
    [][ (req'.op = "complete" /\ req'.sessionId \in DOMAIN sessions) =>
          LET old == sessions[req'.sessionId]
              new == sessions'[req'.sessionId]
          IN  /\ req'.status = 200
              /\ new.isCompleted = TRUE
              /\ new.completedAt \in Times
              /\ new.lastPositionMs = old.lastPositionMs
              /\ new.durationMs = old.durationMs
              /\ new.resumeAt = old.resumeAt
              /\ new.currentCdn = old.currentCdn
              /\ new.currentBitrate = old.currentBitrate
              /\ new.playbackErrors = old.playbackErrors
              /\ Untouched(req'.sessionId) ]_vars

\* start, update(lastPositionMs = 3), complete: the stored session has
\* lastPositionMs = 3 and isCompleted = true.
C8_Witness ==
    /\ req.op = "complete" /\ req.status = 200
    /\ sessions[req.sessionId].isCompleted
    /\ sessions[req.sessionId].lastPositionMs = 3
    /\ sessions[req.sessionId].durationMs = 5

C10_UnknownSession ==
    [][ ( /\ req'.op \in {"update", "complete"}
          /\ PatchValid(req'.sessionId, req'.body)
          /\ req'.sessionId \notin DOMAIN sessions )
          => req'.status = 404 /\ sessions' = sessions ]_vars

\* An update with a new position was answered 404 while another session
\* exists.
C10_Witness ==
    /\ req.op = "update" /\ req.status = 404
    /\ req.body.lastPositionMs = Num(3)
    /\ DOMAIN sessions # {}
    /\ req.sessionId \notin DOMAIN sessions

\* C11 (SpecStart): a startPlayback answered 201 adds exactly one session,
\* under a sessionId no session has (sessions are never removed, so none ever
\* had it), with lastPositionMs = resumeAt (0 when resumeAt is not given),
\* isCompleted = false and no playbackErrors, and leaves every other session
\* as it was, whatever profileId and titleId those sessions have.
C11_StartAddsOneFreshSession ==
    [][ (req'.op = "start" /\ req'.status = 201) =>
          LET sid == req'.sessionId
              b   == req'.body
          IN  /\ sid \notin DOMAIN sessions
              /\ DOMAIN sessions' = DOMAIN sessions \cup {sid}
              /\ sessions'[sid].sessionId = sid
              /\ sessions'[sid].lastPositionMs =
                    IF b.resumeAt.t = "undefined" THEN 0 ELSE b.resumeAt.n
              /\ sessions'[sid].isCompleted = FALSE
              /\ sessions'[sid].playbackErrors = << >>
              /\ \A o \in DOMAIN sessions : sessions'[o] = sessions[o] ]_vars

\* A start with resumeAt = 2 was answered 201 while another session of the
\* same profile and title, already completed, is stored and kept.
C11_Witness ==
    /\ req.op = "start" /\ req.status = 201
    /\ req.body.resumeAt = Num(2)
    /\ sessions[req.sessionId].lastPositionMs = 2
    /\ \E o \in DOMAIN sessions :
          /\ o # req.sessionId
          /\ sessions[o].profileId = sessions[req.sessionId].profileId
          /\ sessions[o].titleId = sessions[req.sessionId].titleId
          /\ sessions[o].isCompleted

\* C12 (SpecStart): a startPlayback whose profileId or titleId is not a
\* well-formed id, or whose durationMs is missing or not numeric, is answered
\* with the client error 400, and no session is created.
C12_MalformedStartIsClientError ==
    [][ ( /\ req'.op = "start"
          /\ \/ ~IsObjectId(req'.body.profileId)
             \/ ~IsObjectId(req'.body.titleId)
             \/ ~IsNumeric(req'.body.durationMs) )
          => req'.status = 400 /\ sessions' = sessions ]_vars

---------------------------------------------------------------------------
(* Claims about the watch-progress mutator *)

History(u, p) == users[u].profiles[p].watchHistory

EntryKey(h) == <<h.contentId, h.episodeId>>

\* C1 (SpecProgress): when every updateProgress answered 200 on a profile
\* carried the same (contentId, episodeId) key, the profile's watchHistory
\* holds exactly one entry for that key, and after each such call the entry
\* has the call's progress and duration.
C1_OneEntryLatestValues ==
    \A u \in Accounts : \A p \in DOMAIN users[u].profiles :
        LET keys == { x[2] : x \in { y \in reported : y[1] = p } }
            at(k) == { i \in 1..Len(History(u, p)) : EntryKey(History(u, p)[i]) = k }
        IN  Cardinality(keys) = 1 =>
              \A k \in keys :
                 /\ Cardinality(at(k)) = 1
                 /\ ( /\ req.op = "progress" /\ req.status = 200
                      /\ ObjectId(req.body.profileId) = p )
                    => \A i \in at(k) :
                          /\ History(u, p)[i].progress = req.body.progress.n
                          /\ History(u, p)[i].duration = req.body.duration.n

\* C2 (SpecProgress): a successful updateProgress changes an existing entry
\* only if the entry's contentId is the request's and its episodeId is the
\* request's, an unset episodeId being equal only to an unset one.
C2_OverwritesOnlyOwnKey ==
    [][ (req'.op = "progress" /\ req'.status = 200) =>
          \A u \in Accounts : \A p \in DOMAIN users[u].profiles :
             \A i \in 1..Len(History(u, p)) :
                users'[u].profiles[p].watchHistory[i] # History(u, p)[i]
                  => EntryKey(History(u, p)[i]) = KeyOf(req'.body) ]_vars

\* C3 (SpecRace): in every reachable state, overlapping requests included, a
\* profile's watchHistory has at most one entry per (contentId, episodeId).
C3_AtMostOneEntryPerKey ==
    \A u \in Accounts : \A p \in DOMAIN users[u].profiles :
        \A i, j \in 1..Len(History(u, p)) :
            i # j => EntryKey(History(u, p)[i]) # EntryKey(History(u, p)[j])

---------------------------------------------------------------------------
(* Claims about profile ownership and My List (SpecLists) *)

MyList(u, p) == users[u].profiles[p].myList

\* C13: an updateProgress that passes validation and names a profile the
\* caller's account does not have (no such profile, or a profile of another
\* account) is answered 404 and changes no account; and no updateProgress,
\* addToMyList or removeFromMyList changes a profile of an account other
\* than the caller's.
C13_OnlyOwnProfiles ==
    [][ /\ ( /\ req'.op = "progress"
              /\ ProgressValid(req'.body)
              /\ ~HasProfile(users[req'.caller], req'.body.profileId) )
              => req'.status = 404 /\ users' = users
        /\ \A u \in Accounts :
              u # req'.caller => users'[u] = users[u] ]_vars

\* u1 asked to update the progress of p2, a profile of u2 that has a list
\* and a history, and was answered 404.
C13_Witness ==
    /\ req.op = "progress" /\ req.status = 404
    /\ req.caller = "u1" /\ req.body.profileId = "p2"
    /\ MyList("u2", "p2") # << >>
    /\ History("u2", "p2") # << >>

NoDuplicates(list) ==
    \A i, j \in 1..Len(list) : i # j => list[i] # list[j]

\* C16: no myList holds a content id twice; an addToMyList for an id the
\* list holds is answered 400 'Already in list' and leaves the list as it
\* is; an addToMyList answered 200 appends the id at the end of the list.
C16_MyListIsASet ==
    [][ /\ \A u \in Accounts : \A p \in DOMAIN users'[u].profiles :
              NoDuplicates(users'[u].profiles[p].myList)
        /\ ( /\ req'.op = "add"
              /\ ListValid(req'.body)
              /\ HasProfile(users[req'.caller], req'.body.profileId)
              /\ IsObjectId(req'.body.contentId) ) =>
              LET pid == ObjectId(req'.body.profileId)
                  old == MyList(req'.caller, pid)
                  new == users'[req'.caller].profiles[pid].myList
              IN  IF Holds(old, ObjectId(req'.body.contentId))
                    THEN /\ req'.status = 400
                         /\ req'.message = "Already in list"
                         /\ new = old
                    ELSE req'.status = 200
                           => new = Append(old, ObjectId(req'.body.contentId)) ]_vars

---------------------------------------------------------------------------
(* Claims about the profiles of an account (SpecProfiles) *)

\* C15: every account has at most 5 profiles in every state, whether or
\* not createProfile requests overlap; a createProfile on an account that
\* has 5 profiles is answered 400 'Maximum 5 profiles allowed' and leaves
\* the profiles as they are.
C15_AtMostFiveProfiles ==
    [][ /\ \A u \in Accounts : Len(users'[u].order) <= MaxProfiles
        /\ ( /\ req'.op = "createProfile"
              /\ req' # req
              /\ ProfileValid(req'.body)
              /\ inflight' = inflight
              /\ Len(users[req'.caller].order) >= MaxProfiles )
              => /\ req'.status = 400
                 /\ req'.message = "Maximum 5 profiles allowed"
                 /\ users' = users ]_vars

---------------------------------------------------------------------------
(* Claims about the deletion of content (SpecCascade) *)

\* C14: when deleteMovie or deleteSeries has answered 200 for content X, no
\* profile of any account has X in its myList or a watchHistory entry with
\* contentId X, however many profiles of an account referred to X.
C14_DeleteRemovesAllReferences ==
    (req.op \in {"movies", "series"} /\ req.status = 200) =>
        \A u \in Accounts : \A p \in DOMAIN users[u].profiles :
            /\ ~Holds(MyList(u, p), ObjectId(req.body.id))
            /\ \A k \in 1..Len(History(u, p)) :
                  History(u, p)[k].contentId # ObjectId(req.body.id)

---------------------------------------------------------------------------
(* Claims about the home feed (SpecFeed).  The histories of SpecFeed hold  *)
(* each content once, so an item of the row is traced to its entry by the   *)
(* content id.  A response is read in the state its step leads to: the    *)
(* handlers of SpecFeed leave the catalogue as it is, and getHomeFeed the   *)
(* histories.                                                               *)

\* The history the row of the last response was built from
FeedHistory == History(req.caller, users[req.caller].order[1])

\* The entry an item of the row comes from
EntryOf(item) ==
    CHOOSE h \in { FeedHistory[k] : k \in 1..Len(FeedHistory) } : h.contentId = item.id

\* The number of entries updated later than h
NewerThan(h) ==
    Cardinality({ k \in 1..Len(FeedHistory) : FeedHistory[k].updatedAt > h.updatedAt })

\* The number of entries updated no earlier than h, h included
AsRecentAs(h) ==
    Cardinality({ k \in 1..Len(FeedHistory) : FeedHistory[k].updatedAt >= h.updatedAt })

\* The content of entry h exists: the collection its contentType names
\* holds a document with its contentId
ContentExists(h) ==
    \E i \in 1..Len(catalog.movies) \cup 1..Len(catalog.series) :
        IF h.contentType = "Movie"
          THEN i <= Len(catalog.movies) /\ catalog.movies[i].id = h.contentId
          ELSE i <= Len(catalog.series) /\ catalog.series[i].id = h.contentId

\* C17: the continueWatching row lists entries of the profile's watch
\* history, each once, in non-increasing updatedAt order; it has at most 10
\* items, each from an entry that is among the 10 most recently updated,
\* and each item carries the progress and the duration of its entry.
C17_RowIsRecentFirst ==
    req.op = "feed" =>
        /\ Len(req.data) <= FeedLimit
        /\ \A j \in 1..Len(req.data) :
              /\ \E k \in 1..Len(FeedHistory) : FeedHistory[k].contentId = req.data[j].id
              /\ req.data[j].progress = EntryOf(req.data[j]).progress
              /\ req.data[j].duration = EntryOf(req.data[j]).duration
              /\ NewerThan(EntryOf(req.data[j])) < FeedLimit
        /\ \A j, k \in 1..Len(req.data) :
              j < k => /\ req.data[j].id # req.data[k].id
                       /\ EntryOf(req.data[j]).updatedAt >= EntryOf(req.data[k]).updatedAt

\* A row of 10 items was built from a history of 12 entries whose list
\* order is not the order of the row.
C17_Witness ==
    /\ req.op = "feed" /\ req.caller = "u1"
    /\ Len(req.data) = FeedLimit
    /\ Len(FeedHistory) = 12
    /\ req.data[1].id # FeedHistory[1].contentId
    /\ EntryOf(req.data[1]).updatedAt > EntryOf(req.data[10]).updatedAt

\* C18: an updateProgress that passes validation for a profile of the
\* caller and a contentId that is an ObjectId of no Movie and no Series is
\* answered 200 and its entry is stored; getHomeFeed is answered 200 with a
\* row that has no item for an entry whose content does not exist, has an
\* item for every entry whose content exists and that is among the 10 most
\* recent, and keeps those items in recency order.
C18_DanglingEntriesAreDropped ==
    /\ ( /\ req.op = "progress"
          /\ ProgressValid(req.body)
          /\ req.body.progress.n >= 0 /\ req.body.duration.n >= 0
          /\ HasProfile(users[req.caller], req.body.profileId)
          /\ IsObjectId(req.body.contentId)
          /\ ~Exists(catalog.movies, ObjectId(req.body.contentId))
          /\ ~Exists(catalog.series, ObjectId(req.body.contentId)) )
          => /\ req.status = 200
             /\ \E k \in 1..Len(History(req.caller, ObjectId(req.body.profileId))) :
                   History(req.caller, ObjectId(req.body.profileId))[k].contentId
                      = ObjectId(req.body.contentId)
    /\ req.op = "feed"
          => /\ req.status = 200
             /\ \A j \in 1..Len(req.data) : ContentExists(EntryOf(req.data[j]))
             /\ \A k \in 1..Len(FeedHistory) :
                   (ContentExists(FeedHistory[k]) /\ AsRecentAs(FeedHistory[k]) <= FeedLimit)
                     => \E j \in 1..Len(req.data) :
                           req.data[j].id = FeedHistory[k].contentId
             /\ \A j, k \in 1..Len(req.data) :
                   j < k => EntryOf(req.data[j]).updatedAt
                              >= EntryOf(req.data[k]).updatedAt

\* The feed was answered after updateProgress stored an entry for t1, which
\* no collection holds: the row has the other entry of the history only.
C18_Witness ==
    /\ req.op = "feed" /\ req.caller = "u1" /\ req.status = 200
    /\ \E k \in 1..Len(FeedHistory) : FeedHistory[k].contentId = "t1"
    /\ Len(FeedHistory) = 2
    /\ Len(req.data) = 1

---------------------------------------------------------------------------
(* Claims about getRelatedContent (SpecRelated).  The handler changes      *)
(* nothing, so the catalogue and the watchlist a response was computed     *)
(* from are those of the state the response is read in.                    *)

\* The source the last request named
RelatedSource == Source(req.body.type, ObjectId(req.body.id))

\* c is an eligible item of the watchlist: on the list of the caller's
\* first profile, published, and not the source
WatchlistEligible(c) ==
    /\ Holds(UserMyList(users[req.caller]), c.id)
    /\ c.isPublished
    /\ c.id # ObjectId(req.body.id)

\* c is what the genre tier selects from: a published content of the
\* source's type with the source's first genre, not the source
GenreMatch(c) ==
    /\ Exists(TypeColl(req.body.type), c.id)
    /\ c.isPublished
    /\ c.id # ObjectId(req.body.id)
    /\ Len(RelatedSource.genres) > 0
    /\ HasGenre(c, RelatedSource.genres[1])

\* The collection that holds c, and c's position in it
HomeOf(c) == IF Exists(catalog.movies, c.id) THEN catalog.movies ELSE catalog.series

PositionOf(c) == CHOOSE i \in 1..Len(HomeOf(c)) : HomeOf(c)[i].id = c.id

\* c is one of the first 5 eligible watchlist items of its collection
WithinCap(c) ==
    /\ WatchlistEligible(c)
    /\ Cardinality({ i \in 1..(PositionOf(c) - 1) : WatchlistEligible(HomeOf(c)[i]) })
          < RelatedCap

\* 1 for an eligible watchlist item, 2 for another item the genre tier
\* selects from, 3 for the rest
TierByWatchlist(c) ==
    IF WatchlistEligible(c) THEN 1 ELSE IF GenreMatch(c) THEN 2 ELSE 3

\* 1 for an item the watchlist tier contributes, 2 for another item the
\* genre tier selects from, 3 for the rest
TierByContribution(c) ==
    IF WithinCap(c) THEN 1 ELSE IF GenreMatch(c) THEN 2 ELSE 3

C20_AtMostTenDistinctNoSource ==
    (req.op = "related" /\ req.status = 200) =>
        /\ Len(req.data) <= RelatedLimit
        /\ \A j \in 1..Len(req.data) : req.data[j].id # ObjectId(req.body.id)
        /\ \A j, k \in 1..Len(req.data) : j # k => req.data[j].id # req.data[k].id

\* A result of 10 items to which the three tiers contributed, out of 11
\* published contents other than the source.
C20_Witness ==
    /\ req.op = "related" /\ req.status = 200
    /\ Len(req.data) = RelatedLimit
    /\ Len(catalog.movies) + Len(catalog.series) = 12
    /\ \A coll \in {catalog.movies, catalog.series} :
          \A i \in 1..Len(coll) : coll[i].isPublished
    /\ TierByContribution(req.data[1]) = 1
    /\ \E j \in 1..Len(req.data) : TierByContribution(req.data[j]) = 2
    /\ TierByContribution(req.data[10]) = 3

---------------------------------------------------------------------------
(* The two recommenders: getRelatedContent and                             *)
(* getCollaborativeRecommendations read against histories, watchlists and  *)
(* catalogues that already exist                                           *)

\* The histories p1 starts with: nothing watched, or a selection of m1, m2
\* and s1
CollabHistories == { PoolEntries(S, 1) : S \in SUBSET {1, 2, 3} }

\* The histories of the neighbour profile p2: a selection of m1, m2, s1, m3
\* and m4, or everything but m1, or the whole pool
NeighbourHistories ==
    { PoolEntries(S, 1) : S \in SUBSET (1..5) }
      \cup { PoolEntries(2..Len(FeedPool), 1), PoolEntries(1..Len(FeedPool), 1) }

CollabLists == { << >>, << "m2", "s2", "m3" >> }

\* The catalogues of RelatedCatalogs, a catalogue whose only published
\* content is a series, and one in which nothing is published
CollabCatalogs ==
    RelatedCatalogs
      \cup { [ movies |-> << Content("m1", FALSE, <<"Action">>, 5) >>,
               series |-> << Content("s1", TRUE, <<"Drama">>, 3) >> ],
             [ movies |-> << Content("m1", FALSE, <<"Action">>, 5),
                             Content("m2", FALSE, <<"Action">>, 9) >>,
               series |-> << Content("s1", FALSE, <<"Drama">>, 3) >> ] }

\* u1 and u2 have one profile each; u0 is registered and has no profile yet
InitCollab ==
    /\ sessions = << >>
    /\ \E wh \in CollabHistories, nh \in NeighbourHistories, list \in CollabLists :
          users = [u \in Accounts \cup {"u0"} |->
                     [v |-> 0,
                      order |-> IF u = "u1" THEN <<"p1">>
                                ELSE IF u = "u2" THEN <<"p2">> ELSE << >>,
                      profiles |-> IF u = "u1"
                                     THEN ("p1" :> [watchHistory |-> wh, myList |-> list])
                                     ELSE IF u = "u2"
                                     THEN ("p2" :> [NewProfile EXCEPT !.watchHistory = nh])
                                     ELSE << >>]]
    /\ inflight = [r \in Slots |-> [pc |-> "idle"]]
    /\ reported = {}
    /\ catalog \in CollabCatalogs
    /\ req = NoReq

\* Callers: the two accounts with a profile, the account u0 without one,
\* and u9, whose account was deleted after authenticate let the request in
\* GET /content/:id/related?type=...
DoCollabRelated ==
    \E r \in { [caller |-> "u1", id |-> "m9", type |-> "Movie"],
                [caller |-> "u1", id |-> "s1", type |-> "Series"],
                [caller |-> "u1", id |-> "e1", type |-> "Movie"],
                [caller |-> "u0", id |-> "m1", type |-> "Movie"],
                [caller |-> "u9", id |-> "m1", type |-> "Movie"],
                [caller |-> "u9", id |-> "e1", type |-> "Movie"] } :
        GetRelatedContent(r.caller, r.type, r.id)

\* GET /recommendations?profileId=...
DoCollab ==
    \E r \in { [caller |-> "u1", profileId |-> ""],
                [caller |-> "u1", profileId |-> "p1"],
                [caller |-> "u1", profileId |-> "p2"],
                [caller |-> "u1", profileId |-> "t1"],
                [caller |-> "u2", profileId |-> ""],
                [caller |-> "u0", profileId |-> ""],
                [caller |-> "u9", profileId |-> ""] } :
        GetCollaborativeRecommendations(r.caller, r.profileId)

NextCollab == DoCollabRelated \/ DoCollab

SpecCollab == InitCollab /\ [][NextCollab]_vars

---------------------------------------------------------------------------
(* Playback sessions next to the profile subdocuments: the handlers of     *)
(* playbackController.ts interleaved with updateProgress and addToMyList   *)

StoresPatches ==
    { [NoPatch EXCEPT !.lastPositionMs = Num(3)],
      [NoPatch EXCEPT !.durationMs = Num(4), !.currentBitrate = Num(1),
                      !.resumeAt = Num(1), !.currentCdn = StrVal("akamai")],
      [NoPatch EXCEPT !.playbackError = ErrObj("E1", "m1")] }

StoresProgressBodies ==
    { [profileId |-> "p1", contentId |-> c, contentType |-> "Movie",
       episodeId |-> "", progress |-> Num(g), duration |-> Num(100)] :
        c \in {"c1", "c2"}, g \in {10, 50} }

DoStoresStart ==
    \E now \in Times :
        StartPlayback("u1", [profileId |-> "p1", titleId |-> "t1",
                             durationMs |-> Num(5), resumeAt |-> Undef], "s1", now)

DoStoresUpdate ==
    \E sid \in SessionIds, body \in StoresPatches, now \in Times :
        UpdatePlayback("u1", sid, body, now)

DoStoresComplete ==
    \E sid \in SessionIds, now \in Times : CompletePlayback("u1", sid, now)

DoStoresProgress ==
    \E body \in StoresProgressBodies, now \in Times : UpdateProgress("u1", body, now)

DoStoresAdd ==
    AddToMyList("u1", [profileId |-> "p1", contentId |-> "c1"])

NextStores ==
    \/ DoStoresStart
    \/ DoStoresUpdate
    \/ DoStoresComplete
    \/ DoStoresProgress
    \/ DoStoresAdd

SpecStores == Init /\ [][NextStores]_vars

---------------------------------------------------------------------------
(* Overlapping updatePlayback calls on one session                         *)

\* The session s1 has been started by p1 and nothing has been reported yet
InitOverlap ==
    /\ sessions = ("s1" :> NewSession("s1", [profileId |-> "p1", titleId |-> "t1",
                                             durationMs |-> Num(5), resumeAt |-> Undef], 1))
    /\ users = [u \in Accounts |->
                  [v |-> 0,
                   order |-> IF u = "u1" THEN <<"p1">> ELSE <<"p2">>,
                   profiles |-> IF u = "u1"
                                  THEN ("p1" :> NewProfile)
                                  ELSE ("p2" :> NewProfile)]]
    /\ inflight = [r \in Slots |-> [pc |-> "idle"]]
    /\ reported = {}
    /\ catalog = [movies |-> << Content("c1", TRUE, <<"Action">>, 1) >>,
                  series |-> << Content("c2", TRUE, <<"Drama">>, 1) >>]
    /\ req = NoReq

OverlapPatches ==
    { [NoPatch EXCEPT !.lastPositionMs = Num(3)],
      [NoPatch EXCEPT !.lastPositionMs = Num(4), !.currentBitrate = Num(1)],
      [NoPatch EXCEPT !.lastPositionMs = NumStr(2)],
      [NoPatch EXCEPT !.lastPositionMs = Text],
      [NoPatch EXCEPT !.durationMs = Num(4), !.resumeAt = Num(1),
                      !.currentCdn = StrVal("akamai")],
      [NoPatch EXCEPT !.playbackError = ErrObj("E1", "m1")],
      [NoPatch EXCEPT !.playbackError = ErrObj("E2", "m2"), !.currentBitrate = Num(2)],
      [NoPatch EXCEPT !.lastPositionMs = Num(3), !.playbackError = ErrObj("E1", "m1")] }

DoOverlapReceive ==
    \E slot \in Slots, body \in OverlapPatches, now \in Times :
        UpdateReceive(slot, "u1", "s1", body, now)

DoOverlapApply == \E slot \in Slots : UpdateApply(slot)

DoOverlapComplete == \E now \in Times : CompletePlayback("u1", "s1", now)

NextOverlap == DoOverlapReceive \/ DoOverlapApply \/ DoOverlapComplete

SpecOverlap == InitOverlap /\ [][NextOverlap]_vars

---------------------------------------------------------------------------
(* The views counter: getMovieById of contentController.ts                 *)

MaxViews == 3

\* A movie document with the premium flag getMovieById tests
Movie(id, isPublished, isPremium, views) ==
    [id |-> id, isPublished |-> isPublished, genres |-> <<"Action">>,
     views |-> views, isPremium |-> isPremium]

IndexOf(coll, id) == CHOOSE i \in 1..Len(coll) : coll[i].id = id

\* user?.subscription.plan === 'PREMIUM' && user?.subscription.status === 'ACTIVE'
HasPremium(caller) ==
    /\ caller \in DOMAIN users
    /\ users[caller].subscription.plan = "PREMIUM"
    /\ users[caller].subscription.status = "ACTIVE"

MovieAnswer(caller, id, status) ==
    [op |-> "movie", caller |-> caller, sessionId |-> "", body |-> [id |-> id],
     status |-> status]

\* What getMovieById answers before it touches the counter, 0 when it
\* goes on to count the view
MovieEarlyStatus(caller, id) ==
    IF ~IsObjectId(id) THEN 500
    ELSE IF ~Exists(catalog.movies, ObjectId(id)) THEN 404
    ELSE LET movie == catalog.movies[IndexOf(catalog.movies, ObjectId(id))]
         IN  IF ~movie.isPublished THEN 404
             ELSE IF movie.isPremium /\ ~HasPremium(caller) THEN 403
             ELSE 0

\* getMovieById from Movie.findById to movie.views += 1: the handler holds
\* the document it loaded, with the counter raised in memory.
MovieLoad(slot, caller, id) ==
    /\ inflight[slot].pc = "idle"
    /\ IF MovieEarlyStatus(caller, id) # 0
         THEN /\ req' = MovieAnswer(caller, id, MovieEarlyStatus(caller, id))
              /\ UNCHANGED inflight
         ELSE /\ Cardinality(reported) < MaxViews
              /\ inflight' = [inflight EXCEPT ![slot] =
                                [pc |-> "viewing", caller |-> caller, id |-> id,
                                 views |-> catalog.movies[IndexOf(catalog.movies,
                                                                  ObjectId(id))].views + 1]]
              /\ UNCHANGED req
    /\ UNCHANGED <<sessions, users, reported, catalog>>

\* getMovieById from movie.save() to the response: save() sends
\* $set: { views } with the value computed from the loaded document.
MovieSave(slot) ==
    /\ inflight[slot].pc = "viewing"
    /\ LET r == inflight[slot]
       IN  IF Exists(catalog.movies, ObjectId(r.id))
             THEN /\ catalog' = [catalog EXCEPT
                                   !.movies[IndexOf(catalog.movies, ObjectId(r.id))].views = r.views]
                  /\ req' = MovieAnswer(r.caller, r.id, 200)
                  /\ reported' = reported \cup {<<ObjectId(r.id), Cardinality(reported) + 1>>}
             ELSE /\ req' = MovieAnswer(r.caller, r.id, 500)
                  /\ UNCHANGED <<catalog, reported>>
    /\ inflight' = [inflight EXCEPT ![slot] = [pc |-> "idle"]]
    /\ UNCHANGED <<sessions, users>>

\* u1 is on the free plan, u2 has an active premium subscription; m1 is
\* free, m2 premium, m3 not published; nothing has been viewed.
InitViews ==
    /\ sessions = << >>
    /\ users = [u \in Accounts |->
                  [v |-> 0,
                   order |-> IF u = "u1" THEN <<"p1">> ELSE <<"p2">>,
                   profiles |-> IF u = "u1" THEN ("p1" :> NewProfile)
                                            ELSE ("p2" :> NewProfile),
                   subscription |-> [plan |-> IF u = "u1" THEN "FREE" ELSE "PREMIUM",
                                     status |-> "ACTIVE"]]]
    /\ inflight = [r \in Slots |-> [pc |-> "idle"]]
    /\ reported = {}
    /\ catalog = [movies |-> << Movie("m1", TRUE, FALSE, 0), Movie("m2", TRUE, TRUE, 0),
                               Movie("m3", FALSE, FALSE, 0) >>,
                  series |-> << >>]
    /\ req = NoReq

DoMovieLoad ==
    \E slot \in Slots, caller \in Accounts \cup {"u9"}, id \in {"m1", "m2", "m3", "e1", "bad"} :
        MovieLoad(slot, caller, id)

DoMovieSave == \E slot \in Slots : MovieSave(slot)

NextViews == DoMovieLoad \/ DoMovieSave

SpecViews == InitViews /\ [][NextViews]_vars

---------------------------------------------------------------------------
(* Tokens and blocking: utils/auth, authenticate, login, refresh, logout   *)
(* and toggleBlockUser                                                     *)

MaxTime == 3

\* jwt.sign({ userId, ... }, secret, { expiresIn }): the token is the
\* signed payload { userId, iat, exp } with iat the second of signing, so
\* two tokens signed for one account with one secret in the same second
\* are the same string.  kind stands for the secret: access or refresh.
\* The model covers less than the 24h after which a token expires.
Token(kind, userId, now) == [kind |-> kind, userId |-> userId, iat |-> now]

\* No token in the request, and a string that no secret verifies
NoToken == [kind |-> "none", userId |-> "", iat |-> 0]

Garbage == [kind |-> "garbage", userId |-> "", iat |-> 0]

\* The second of the latest signature: the clock has not gone back since
Latest == IF reported = {} THEN 1
          ELSE CHOOSE t \in { r.iat : r \in reported } :
                   \A r \in reported : r.iat <= t

Seconds == Latest..MaxTime

\* verifyAccessToken / verifyRefreshToken: the payload or null
Verifies(token, kind) == token.kind = kind

AuthAnswer(op, caller, token, status, issued) ==
    [op |-> op, caller |-> caller, sessionId |-> "", body |-> [token |-> token],
     status |-> status, issued |-> issued]

\* POST /auth/login: account is whom the email names; password is "ok" for
\* the account's password, "wrong" for another one, "" for none, which
\* loginValidation rejects.
Login(account, password, now) ==
    /\ IF password = ""
         THEN /\ req' = AuthAnswer("login", account, NoToken, 400, NoToken)
              /\ UNCHANGED <<users, reported>>
         ELSE IF account \notin DOMAIN users
         THEN /\ req' = AuthAnswer("login", account, NoToken, 401, NoToken)
              /\ UNCHANGED <<users, reported>>
         ELSE IF users[account].isBlocked
         THEN /\ req' = AuthAnswer("login", account, NoToken, 403, NoToken)
              /\ UNCHANGED <<users, reported>>
         ELSE IF password # "ok"
         THEN /\ req' = AuthAnswer("login", account, NoToken, 401, NoToken)
              /\ UNCHANGED <<users, reported>>
         ELSE /\ users' = [users EXCEPT ![account].refreshToken =
                                          Token("refresh", account, now)]
              /\ reported' = reported \cup { Token("access", account, now),
                                             Token("refresh", account, now) }
              /\ req' = AuthAnswer("login", account, NoToken, 200,
                                   Token("refresh", account, now))
    /\ UNCHANGED <<sessions, inflight, catalog>>

\* user && user.refreshToken === refreshToken
RefreshMatches(token) ==
    /\ token.userId \in DOMAIN users
    /\ users[token.userId].refreshToken = token

\* POST /auth/refresh
Refresh(token, now) ==
    /\ IF token = NoToken
         THEN /\ req' = AuthAnswer("refresh", "", token, 400, NoToken)
              /\ UNCHANGED <<users, reported>>
         ELSE IF ~Verifies(token, "refresh")
         THEN /\ req' = AuthAnswer("refresh", "", token, 401, NoToken)
              /\ UNCHANGED <<users, reported>>
         ELSE IF ~RefreshMatches(token)
         THEN /\ req' = AuthAnswer("refresh", token.userId, token, 401, NoToken)
              /\ UNCHANGED <<users, reported>>
         ELSE IF users[token.userId].isBlocked
         THEN /\ req' = AuthAnswer("refresh", token.userId, token, 403, NoToken)
              /\ UNCHANGED <<users, reported>>
         ELSE /\ users' = [users EXCEPT ![token.userId].refreshToken =
                                          Token("refresh", token.userId, now)]
              /\ reported' = reported \cup { Token("access", token.userId, now),
                                             Token("refresh", token.userId, now) }
              /\ req' = AuthAnswer("refresh", token.userId, token, 200,
                                   Token("refresh", token.userId, now))
    /\ UNCHANGED <<sessions, inflight, catalog>>

\* POST /auth/logout: findOneAndUpdate({ refreshToken }, { $unset }) clears
\* the token of the account that stores it, if any; the answer is 200.
Logout(token) ==
    /\ users' = [u \in DOMAIN users |->
                   IF token # NoToken /\ users[u].refreshToken = token
                     THEN [users[u] EXCEPT !.refreshToken = NoToken]
                     ELSE users[u]]
    /\ req' = AuthAnswer("logout", "", token, 200, NoToken)
    /\ UNCHANGED <<sessions, inflight, reported, catalog>>

\* Mutant: blocking is one-way.
Toggled_BlockOnly(doc) == [doc EXCEPT !.isBlocked = TRUE]

\* user.isBlocked = !user.isBlocked; user.save()
Toggled(doc) == [doc EXCEPT !.isBlocked = ~@]

\* PUT /admin/users/:id/block
ToggleBlockUser(id) ==
    /\ IF id \notin DOMAIN users
         THEN /\ req' = AuthAnswer("block", id, NoToken, 404, NoToken)
              /\ UNCHANGED users
         ELSE /\ users' = [users EXCEPT ![id] = Toggled(@)]
              /\ req' = AuthAnswer("block", id, NoToken, 200, NoToken)
    /\ UNCHANGED <<sessions, inflight, reported, catalog>>

\* What authenticate answers when it does not call next(), 0 when it does
AuthStatus(token) ==
    IF token = NoToken THEN 401
    ELSE IF ~Verifies(token, "access") THEN 401
    ELSE IF token.userId \notin DOMAIN users THEN 401
    ELSE IF users[token.userId].isBlocked THEN 403
    ELSE 0

\* POST /my-list/add behind authenticate: the handler runs as the account
\* of the token when authenticate calls next()
AuthenticatedAdd(token, body) ==
    IF AuthStatus(token) # 0
      THEN /\ req' = [ListAnswer("add",
                                  IF Verifies(token, "access") THEN token.userId ELSE "",
                                  body, AuthStatus(token), "not authenticated")
                         EXCEPT !.body = [token |-> token]]
           /\ UNCHANGED <<sessions, users, inflight, reported, catalog>>
      ELSE AddToMyList(token.userId, body)

\* Both accounts have registered in second 1 and hold the refresh token
\* register stored; nobody is blocked.
InitAuth ==
    /\ sessions = << >>
    /\ users = [u \in Accounts |->
                  [v |-> 0,
                   order |-> IF u = "u1" THEN <<"p1">> ELSE <<"p2">>,
                   profiles |-> IF u = "u1" THEN ("p1" :> NewProfile)
                                            ELSE ("p2" :> NewProfile),
                   refreshToken |-> Token("refresh", u, 1),
                   isBlocked |-> FALSE]]
    /\ inflight = [r \in Slots |-> [pc |-> "idle"]]
    /\ reported = { Token(k, u, 1) : k \in {"access", "refresh"}, u \in Accounts }
    /\ catalog = [movies |-> << Content("c1", TRUE, <<"Action">>, 1) >>,
                  series |-> << Content("c2", TRUE, <<"Drama">>, 1) >>]
    /\ req = NoReq

\* What a client can present: a token that has been issued, no token, or
\* a string of its own making
Presentable == reported \cup {NoToken, Garbage}

DoLogin ==
    \E account \in Accounts \cup {"u9"}, password \in {"ok", "wrong", ""}, now \in Seconds :
        Login(account, password, now)

DoRefresh == \E token \in Presentable, now \in Seconds : Refresh(token, now)

DoLogout == \E token \in Presentable : Logout(token)

DoToggleBlock == \E id \in Accounts \cup {"u9"} : ToggleBlockUser(id)

DoAuthenticatedAdd ==
    \E token \in Presentable :
        AuthenticatedAdd(token, [profileId |-> IF token.userId = "u2" THEN "p2" ELSE "p1",
                                 contentId |-> "c1"])

NextAuth == DoLogin \/ DoRefresh \/ DoLogout \/ DoToggleBlock \/ DoAuthenticatedAdd

SpecAuth == InitAuth /\ [][NextAuth]_vars

---------------------------------------------------------------------------
(* Claims about the two recommenders (SpecCollab) *)

\* The ids of the contents of the catalogue that are published
PublishedIds ==
    { catalog.movies[i].id : i \in { k \in 1..Len(catalog.movies) : catalog.movies[k].isPublished } }
      \cup { catalog.series[i].id : i \in { k \in 1..Len(catalog.series) : catalog.series[k].isPublished } }

UnpublishedIds == (Ids(catalog.movies) \cup Ids(catalog.series)) \ PublishedIds

\* The history of the profile a getCollaborativeRecommendations request
\* that was answered 200 is about
AskedHistory ==
    users[req.caller].profiles[IF req.body.profileId = ""
                                 THEN users[req.caller].order[1]
                                 ELSE req.body.profileId].watchHistory

AskedWatched == { AskedHistory[i].contentId : i \in 1..Len(AskedHistory) }

\* What the other profiles hold in their histories
NeighbourWatched ==
    UNION { { users[u].profiles[p].watchHistory[i].contentId :
                i \in 1..Len(users[u].profiles[p].watchHistory) } :
            <<u, p>> \in { <<"u1", "p1">>, <<"u2", "p2">> } \ { <<req.caller, "p1">>, <<req.caller, "p2">> } }

\* C21: every item of a result of getRelatedContent or of
\* getCollaborativeRecommendations is a published content of the catalogue,
\* whatever is on the watchlist and whatever the neighbours watched.
C21_OnlyPublishedRecommended ==
    (req.op \in {"related", "collab"} /\ req.status = 200) =>
        \A j \in 1..Len(req.data) : req.data[j].id \in PublishedIds

\* A non-empty result of getRelatedContent for a caller whose watchlist
\* holds an unpublished movie, while the neighbour profile has watched an
\* unpublished content as well.
C21_Witness ==
    /\ req.op = "related" /\ req.status = 200 /\ req.caller = "u1"
    /\ Len(req.data) > 0
    /\ \E i \in 1..Len(MyList("u1", "p1")) : MyList("u1", "p1")[i] \in UnpublishedIds
    /\ WatchedIds(History("u2", "p2")) \cap UnpublishedIds # {}

\* C22: getRelatedContent and getCollaborativeRecommendations answer 404
\* when the source content cannot be resolved or when the caller's profile
\* cannot be resolved (unknown account, account without profiles, unknown
\* profileId).
C22_UnresolvedIsNotFound ==
    /\ (req.op = "related" /\
          (\/ ~IsObjectId(req.body.id)
           \/ ~Exists(TypeColl(req.body.type), ObjectId(req.body.id))
           \/ req.caller \notin DOMAIN users
           \/ users[req.caller].order = << >>))
         => req.status = 404
    /\ (req.op = "collab" /\
          (\/ req.caller \notin DOMAIN users
           \/ users[req.caller].order = << >>
           \/ /\ req.body.profileId # ""
              /\ \A i \in 1..Len(users[req.caller].order) :
                     users[req.caller].order[i] # req.body.profileId))
         => req.status = 404

\* C23: for a profile with an empty watchHistory the result of
\* getCollaborativeRecommendations is the published content by views
\* descending, at most 10 items, and is not empty when the catalogue holds
\* a published movie or series.
C23_ColdStartIsTrending ==
    (req.op = "collab" /\ req.status = 200 /\ AskedHistory = << >>) =>
        /\ Len(req.data) <= CollabLimit
        /\ \A j \in 1..Len(req.data) : req.data[j].id \in PublishedIds
        /\ \A j, k \in 1..Len(req.data) : j < k => req.data[j].views >= req.data[k].views
        /\ PublishedIds # {} => Len(req.data) > 0

\* C24: no item of a result of getCollaborativeRecommendations is in the
\* watchHistory of the profile the request is about.
C24_NothingWatchedRecommended ==
    (req.op = "collab" /\ req.status = 200) =>
        \A j \in 1..Len(req.data) : req.data[j].id \notin AskedWatched

\* A result with a neighbour candidate and trending padding, for a profile
\* that has watched a published movie with more views than a movie of the
\* result.
C24_Witness ==
    /\ req.op = "collab" /\ req.status = 200
    /\ \E j \in 1..Len(req.data) : req.data[j].id \in NeighbourWatched
    /\ \E j \in 1..Len(req.data) : req.data[j].id \notin NeighbourWatched
    /\ \E i \in 1..Len(catalog.movies) :
          /\ catalog.movies[i].id \in AskedWatched
          /\ catalog.movies[i].isPublished
          /\ \E j \in 1..Len(req.data) : req.data[j].views < catalog.movies[i].views

\* C25: a result of getCollaborativeRecommendations has at most 10 items
\* and no content twice.
C25_AtMostTenNoneTwice ==
    (req.op = "collab" /\ req.status = 200) =>
        /\ Len(req.data) <= CollabLimit
        /\ \A j, k \in 1..Len(req.data) : j # k => req.data[j].id # req.data[k].id

---------------------------------------------------------------------------
(* Claims about the two stores (SpecStores) *)

\* C26: a step of startPlayback, updatePlayback or completePlayback leaves
\* every profile's watchHistory and myList as they are, and a step of
\* updateProgress leaves the playback sessions as they are.
C26_StoresAreIndependent ==
    [][ /\ req'.op \in {"start", "update", "complete"} =>
              \A u \in Accounts :
                  /\ DOMAIN users'[u].profiles = DOMAIN users[u].profiles
                  /\ \A p \in DOMAIN users[u].profiles :
                        /\ users'[u].profiles[p].watchHistory = History(u, p)
                        /\ users'[u].profiles[p].myList = MyList(u, p)
        /\ req'.op = "progress" => sessions' = sessions ]_vars

\* A session has been updated and completed while the profile of its
\* owner holds a watch-history entry and a watchlist item.
C26_Witness ==
    /\ req.op = "complete" /\ req.status = 200
    /\ "s1" \in DOMAIN sessions
    /\ sessions["s1"].isCompleted
    /\ sessions["s1"].lastPositionMs = 3
    /\ History("u1", "p1") # << >>
    /\ MyList("u1", "p1") # << >>

---------------------------------------------------------------------------
(* Claims about overlapping updatePlayback calls (SpecOverlap) *)

SetFields == {"lastPositionMs", "durationMs", "resumeAt", "currentBitrate", "currentCdn"}

\* The call with body b writes field f, and the value it writes
Writes(b, f) == b[f].t = (IF f = "currentCdn" THEN "string" ELSE "number")

Written(b, f) == IF f = "currentCdn" THEN b[f].s ELSE b[f].n

\* The call with body b carries a playbackError record
Reports(b) ==
    /\ b.playbackError.t = "object"
    /\ b.playbackError.code # "" /\ b.playbackError.message # ""

AnsweredSlots == { slot \in Slots : inflight[slot].pc = "answered" }

\* What the answered calls have left in session s1
OverlapOutcome ==
    /\ \A f \in SetFields :
          LET writers == { w \in AnsweredSlots : Writes(inflight[w].body, f) }
          IN  writers # {} =>
                  sessions["s1"][f] \in { Written(inflight[w].body, f) : w \in writers }
    /\ Len(sessions["s1"].playbackErrors)
          = Cardinality({ w \in AnsweredSlots : Reports(inflight[w].body) })
    /\ \A w \in AnsweredSlots : Reports(inflight[w].body) =>
          \E i \in 1..Len(sessions["s1"].playbackErrors) :
              /\ sessions["s1"].playbackErrors[i].code = inflight[w].body.playbackError.code
              /\ sessions["s1"].playbackErrors[i].message = inflight[w].body.playbackError.message

\* C27: whatever updatePlayback calls on the session are in flight, the
\* update of one call sets exactly the fields that call writes to that
\* call's values, leaves every other field as the calls before left it,
\* and appends its playbackError record to the records present; so a
\* field written by one call ends with that call's value, a field written
\* by several ends with the value of one of them, and the records of all
\* calls are in the list, in the started and in the completed state.
C27_OverlappingUpdatesApplyPerField ==
    [][ /\ \A slot \in Slots :
              (inflight[slot].pc = "updating" /\ inflight'[slot].pc = "answered") =>
                  LET b == inflight[slot].body
                  IN  /\ \A f \in SetFields :
                            sessions'["s1"][f] = IF Writes(b, f) THEN Written(b, f)
                                                 ELSE sessions["s1"][f]
                      /\ sessions'["s1"].playbackErrors =
                            IF Reports(b)
                              THEN Append(sessions["s1"].playbackErrors,
                                          [code |-> b.playbackError.code,
                                           message |-> b.playbackError.message,
                                           timestamp |-> inflight[slot].now])
                              ELSE sessions["s1"].playbackErrors
                      /\ sessions'["s1"].isCompleted = sessions["s1"].isCompleted
        /\ OverlapOutcome' ]_vars

\* One call has been applied to the completed session while another call
\* that writes the same field with another value is in flight; the
\* applied call's position, bitrate and error record are in the session.
C27_Witness ==
    /\ inflight[1].pc = "answered" /\ inflight[2].pc = "updating"
    /\ sessions["s1"].isCompleted
    /\ Writes(inflight[1].body, "lastPositionMs") /\ Writes(inflight[2].body, "lastPositionMs")
    /\ Written(inflight[1].body, "lastPositionMs") # Written(inflight[2].body, "lastPositionMs")
    /\ Reports(inflight[2].body)
    /\ sessions["s1"].lastPositionMs = Written(inflight[1].body, "lastPositionMs")
    /\ sessions["s1"].currentBitrate = 1

---------------------------------------------------------------------------
(* Claims about the views counter (SpecViews) *)

\* The number of getMovieById requests for movie id answered 200 so far
Returned(id) == Cardinality({ r \in reported : r[1] = id })

ViewsOf(id) == catalog.movies[CHOOSE i \in 1..Len(catalog.movies) : catalog.movies[i].id = id].views

\* C28: after n getMovieById requests for a movie have been answered 200,
\* one after the other or overlapping, its views counter has grown by n; a
\* request answered 404 or 403 leaves every counter as it is.
C28_ViewsCountReturnedReads ==
    [][ /\ \A id \in {"m1", "m2", "m3"} : ViewsOf(id)' = Returned(id)'
        /\ (req'.op = "movie" /\ req'.status \in {403, 404}) => catalog' = catalog ]_vars

---------------------------------------------------------------------------
(* Claims about tokens and blocking (SpecAuth) *)

\* A refresh presenting token t would pass the comparison with the stored
\* token
Accepted(t) == t.userId \in Accounts /\ users[t.userId].refreshToken = t

\* The same of the state a step leads to
AcceptedAfter(t) == t.userId \in Accounts /\ users'[t.userId].refreshToken = t

RefreshTokens == { t \in reported : t.kind = "refresh" }

\* C29: a refresh token is single-use and revocable: after a refresh
\* answered 200 the presented token is no longer accepted and the issued
\* one is; after a logout with a token, and after a login that replaced
\* it, the token is no longer accepted; a token that is no longer accepted
\* is never accepted again; and a refresh with a token that is not
\* accepted is answered 401, signs no token and changes no account.
C29_RefreshTokenSingleUse ==
    [][ /\ (req'.op = "refresh" /\ req'.status = 200) =>
              /\ ~AcceptedAfter(req'.body.token)
              /\ AcceptedAfter(req'.issued)
        /\ req'.op = "logout" => ~AcceptedAfter(req'.body.token)
        /\ (req'.op = "login" /\ req'.status = 200) =>
              ~AcceptedAfter(users[req'.caller].refreshToken)
        /\ \A t \in RefreshTokens : ~Accepted(t) => ~AcceptedAfter(t)
        /\ (req'.op = "refresh" /\ Verifies(req'.body.token, "refresh")
              /\ ~Accepted(req'.body.token)) =>
              /\ req'.status = 401
              /\ reported' = reported
              /\ users' = users ]_vars

\* The account of a token, "" for what names none
Blocked(u) == u \in Accounts /\ users[u].isBlocked

\* What holds of a step for a blocked account whatever the token: requests
\* behind authenticate and logins are answered 403 and nothing is changed
\* or signed; toggleBlockUser flips the flag and changes nothing else.
BlockedIsShutOut ==
    /\ (req'.op = "add" /\ "token" \in DOMAIN req'.body /\ Blocked(req'.caller)) =>
          /\ req'.status = 403
          /\ users' = users
    /\ (req'.op = "add" /\ Blocked(req'.caller)) => "token" \in DOMAIN req'.body
    /\ (req'.op = "login" /\ req'.status # 400 /\ Blocked(req'.caller)) =>
          /\ req'.status = 403
          /\ users' = users /\ reported' = reported
    /\ (req'.op = "block" /\ req'.status = 200) =>
          /\ users'[req'.caller].isBlocked = ~users[req'.caller].isBlocked
          /\ users'[req'.caller].refreshToken = users[req'.caller].refreshToken
          /\ \A u \in Accounts \ {req'.caller} : users'[u] = users[u]

\* C30 as stated: while isBlocked is true every request behind
\* authenticate, every login and every refresh for the account is
\* answered 403 and does nothing; toggleBlockUser flips the flag.
C30_BlockedIsRejected403 ==
    [][ /\ BlockedIsShutOut
        /\ (req'.op = "refresh" /\ Blocked(req'.caller)) =>
              /\ req'.status = 403
              /\ users' = users /\ reported' = reported ]_vars

\* C30, amended: while isBlocked is true every request behind authenticate
\* with an access token of the account and every login naming the account
\* is answered 403; a refresh for the account is answered 403 when it
\* presents the stored refresh token and 401 when it presents another
\* one; none of them changes an account or signs a token; toggleBlockUser
\* flips the flag and leaves the stored token, so a second toggle restores
\* access.
C30_BlockedIsRejected ==
    [][ /\ BlockedIsShutOut
        /\ (req'.op = "refresh" /\ Blocked(req'.caller)) =>
              /\ req'.status = IF Accepted(req'.body.token) THEN 403 ELSE 401
              /\ users' = users /\ reported' = reported ]_vars

\* u1 has been blocked and unblocked, and the access token signed before
\* the block has then put c1 on the list of p1; u2 is blocked and its
\* refresh with the stored token has just been answered 403.
C30_Witness ==
    /\ req.op = "refresh" /\ req.status = 403 /\ req.caller = "u2"
    /\ users["u2"].isBlocked
    /\ ~users["u1"].isBlocked
    /\ MyList("u1", "p1") = << "c1" >>
    /\ users["u1"].refreshToken = Token("refresh", "u1", 1)

====
